---- MODULE Spec2Model ----
(***************************************************************************)
(* State-machine model of the thirdweb wallet / ERC-20 deploy tool and of  *)
(* the transaction status checker.                                         *)
(*                                                                         *)
(*   SpecChecker : the transaction checker CLI (check-transaction main)    *)
(*                                                                         *)
(* An action is one run of the program between two suspension points (an   *)
(* awaited HTTP call, an awaited prompt, an awaited timer).                *)
(***************************************************************************)
EXTENDS Integers, Sequences, FiniteSets, TLC

\* JavaScript's undefined, for string-valued places.
Absent == "absent"
\* The empty string.
Empty == ""
\* JavaScript truthiness of an optional string.
Truthy(s) == s # Absent /\ s # Empty

Min(a, b) == IF a < b THEN a ELSE b

\* process.exit has not been called and main has not returned.
Running == 0 - 1

---------------------------------------------------------------------------
(* The HTTP layer (axios): what one request can settle to.                 *)

\* A response was received with this status code and body.
Resp(code, b) == [kind |-> "response", status |-> code, body |-> b]
\* No response was received (connection failure, or the 30 s timeout).
NoResp(why) == [kind |-> "noresponse", status |-> 0, body |-> [null |-> TRUE, cause |-> why]]

\* axios resolves on a 2xx status and rejects on every other one.
Is2xx(code) == code >= 200 /\ code < 300

\* An empty (null) response body.
NullBody == [null |-> TRUE, cause |-> "null"]

\* An interceptor that throws a plain Error for every failure.
responseInterceptor_PlainError(res) ==
  [type |-> "Error", status_code |-> 0, message |-> "network"]
\* The value thrown by the response interceptor: an ApiError carrying the
\* response's status when there is a response, a plain Error otherwise.
responseInterceptor(res) ==
  IF res.kind = "response"
    THEN [type |-> "ApiError", status_code |-> res.status, message |-> "http"]
    ELSE [type |-> "Error", status_code |-> 0, message |-> "network"]

\* A TypeError raised by reading a property of null.
TypeErr == [type |-> "TypeError", status_code |-> 0, message |-> "null"]
\* No error.
NoError == [type |-> "none", status_code |-> 0, message |-> ""]
\* new Error(message), thrown by the client's own checks.
ErrorOf(msg) == [type |-> "Error", status_code |-> 0, message |-> msg]

\* A catch block that looks for the axios field instead of status_code.
HasStatusCode_WrongField(err) == err.type = "AxiosError"
\* 'status_code' in error
HasStatusCode(err) == err.type = "ApiError"

---------------------------------------------------------------------------
(* Text: a string the user, the command line or the API supplies is a      *)
(* sequence of one-character strings, so that trimming, case conversion,   *)
(* prefixes and pattern tests are computed as the code computes them.      *)

\* JavaScript's undefined, for text-valued places.
Undef == <<"<undefined>">>
\* JavaScript truthiness of an optional text.
HasText(s) == s # Undef /\ s # <<>>

Lowers == <<"a", "b", "c", "d", "e", "f", "g", "h", "i", "j", "k", "l", "m",
            "n", "o", "p", "q", "r", "s", "t", "u", "v", "w", "x", "y", "z">>
Uppers == <<"A", "B", "C", "D", "E", "F", "G", "H", "I", "J", "K", "L", "M",
            "N", "O", "P", "Q", "R", "S", "T", "U", "V", "W", "X", "Y", "Z">>
Digits == <<"0", "1", "2", "3", "4", "5", "6", "7", "8", "9">>
Whitespace == {" ", "\t"}

\* Position of c in alphabet, 0 when it is not in it.
IndexIn(c, alphabet) ==
  IF \E i \in 1..Len(alphabet) : alphabet[i] = c
    THEN CHOOSE i \in 1..Len(alphabet) : alphabet[i] = c
    ELSE 0

SetMin(S) == CHOOSE x \in S : \A y \in S : x <= y
SetMax(S) == CHOOSE x \in S : \A y \in S : x >= y

\* A getTokenMetadata that returns the symbol as it was typed.
toUpperCase_AsTyped(s) == s
\* String.prototype.toUpperCase
toUpperCase(s) ==
  [i \in 1..Len(s) |->
     LET k == IndexIn(s[i], Lowers) IN IF k = 0 THEN s[i] ELSE Uppers[k]]

\* String.prototype.toLowerCase
toLowerCase(s) ==
  [i \in 1..Len(s) |->
     LET k == IndexIn(s[i], Uppers) IN IF k = 0 THEN s[i] ELSE Lowers[k]]

\* String.prototype.trim
trim(s) ==
  LET kept == {i \in 1..Len(s) : s[i] \notin Whitespace}
  IN IF kept = {} THEN <<>> ELSE SubSeq(s, SetMin(kept), SetMax(kept))

\* A cut that keeps the whole text.
substring0_Whole(s, n) == s
\* String.prototype.substring(0, n) and slice(0, n), n >= 0
substring0(s, n) == SubSeq(s, 1, Min(n, Len(s)))

\* askQuestion: the prompt resolves with the typed line, trimmed.
askQuestion(typed) == trim(typed)

\* A prompt that takes every answer but n for a yes.
SaysYes_UnlessNo(answer) == answer # <<"n">>
\* answer.toLowerCase() === 'y' || answer.toLowerCase() === 'yes'
SaysYes(answer) == toLowerCase(answer) \in {<<"y">>, <<"y", "e", "s">>}
\* A deploy question that takes any answer for a yes.
SaysY_AnyAnswer(answer) == TRUE
\* answer.toLowerCase() === 'y'
SaysY(answer) == toLowerCase(answer) = <<"y">>

\* Number values: NaN and undefined, beside the integers.
NaN == 0 - 1000001
NoNumber == 0 - 1000002
\* JavaScript truthiness of an optional number.
TruthyNumber(n) == n # 0 /\ n # NaN /\ n # NoNumber
isNaN(n) == n = NaN

RECURSIVE DigitsValue(_)
\* The value of a sequence of decimal digits.
DigitsValue(ds) ==
  IF ds = <<>> THEN 0
  ELSE 10 * DigitsValue(SubSeq(ds, 1, Len(ds) - 1)) + (IndexIn(ds[Len(ds)], Digits) - 1)

\* parseInt(s): leading whitespace, an optional sign, then the longest run
\* of digits; NaN when there is no digit.
parseInt(s) ==
  LET t == trim(s)
      neg == Len(t) > 0 /\ t[1] = "-"
      u == IF Len(t) > 0 /\ t[1] \in {"-", "+"} THEN Tail(t) ELSE t
      stops == {i \in 1..Len(u) : IndexIn(u[i], Digits) = 0}
      n == IF stops = {} THEN Len(u) ELSE SetMin(stops) - 1
  IN IF n = 0 THEN NaN
     ELSE IF neg THEN 0 - DigitsValue(SubSeq(u, 1, n)) ELSE DigitsValue(SubSeq(u, 1, n))

\* A validator that asks for no dot after the @.
isValidEmail_NoDot(e) ==
  /\ \A i \in 1..Len(e) : e[i] \notin Whitespace
  /\ Cardinality({i \in 1..Len(e) : e[i] = "@"}) = 1
  /\ LET at == CHOOSE i \in 1..Len(e) : e[i] = "@"
     IN at > 1 /\ at < Len(e)
\* isValidEmail: /^[^\s@]+@[^\s@]+\.[^\s@]+$/
isValidEmail(e) ==
  /\ \A i \in 1..Len(e) : e[i] \notin Whitespace
  /\ Cardinality({i \in 1..Len(e) : e[i] = "@"}) = 1
  /\ LET at == CHOOSE i \in 1..Len(e) : e[i] = "@"
     IN /\ at > 1
        /\ \E d \in (at + 2)..(Len(e) - 1) : e[d] = "."


---------------------------------------------------------------------------
(* API client (ThirdwebClient): the pure part of each method               *)

TOKEN_KEPT == 20

\* The longest bearer token and the texts used as tokens: the token of
\* length n is the first n letters of the alphabet.
MaxTokenLen == 22
Tok(n) == SubSeq(Lowers, 1, n)
Tokens == {Undef, <<>>} \cup {Tok(n) : n \in {1} \cup ((TOKEN_KEPT - 1)..MaxTokenLen)}

Addr == <<"0", "x", "1", "2", "3", "4", "5", "6", "7", "8">>
ContractAddr == <<"0", "x", "c", "c", "c", "c", "c", "c", "c">>
TxId == <<"t", "x">>
GoodEmail == <<"u", "@", "e", ".", "c">>

\* `${value}` for an optional text.
TextOf(s) == IF s = Undef THEN <<"u", "n", "d", "e", "f", "i", "n", "e", "d">> ELSE s

\* A header without the Bearer scheme.
updateAuthHeaders_NoScheme(token) == TextOf(token)
\* updateAuthHeaders: the Authorization default header it stores.
updateAuthHeaders(token) == <<"B", "e", "a", "r", "e", "r", " ">> \o TextOf(token)

\* What an awaited this.client.post / get gives the method: the body of a
\* 2xx answer, or the interceptor's error thrown.
Settled(res) ==
  IF res.kind = "response" /\ Is2xx(res.status)
    THEN [ok |-> TRUE, data |-> res.body, error |-> NoError]
    ELSE [ok |-> FALSE, data |-> NullBody, error |-> responseInterceptor(res)]

\* sendLoginCode / verifyLoginCode called directly: the error they re-throw
\* (NoError when they return response.data).
PostFailure(res) == Settled(res).error

\* A step 1 that does not look at codeResponse.success.
SendFailure_IgnoresSuccess(res) ==
  LET r == Settled(res)
  IN IF ~r.ok THEN r.error
     ELSE IF r.data.null THEN TypeErr
     ELSE NoError
\* createWalletWithEmail, step 1: the error thrown after sendLoginCode
\* settled; NoError when the login code was sent.
SendFailure(res) ==
  LET r == Settled(res)
  IN IF ~r.ok THEN r.error
     ELSE IF r.data.null THEN TypeErr
     ELSE IF ~r.data.success THEN ErrorOf("Failed to send login code")
     ELSE NoError

\* A step 3 that is content with a token in the answer.
VerifyFailure_TokenSuffices(res) ==
  LET r == Settled(res)
  IN IF ~r.ok THEN r.error
     ELSE IF r.data.null THEN TypeErr
     ELSE IF ~HasText(r.data.walletAddress) /\ ~HasText(r.data.token)
       THEN ErrorOf("Failed to verify login code")
     ELSE NoError
\* createWalletWithEmail, step 3: the error thrown after verifyLoginCode
\* settled; NoError when a wallet address was returned.
VerifyFailure(res) ==
  LET r == Settled(res)
  IN IF ~r.ok THEN r.error
     ELSE IF r.data.null THEN TypeErr
     ELSE IF ~HasText(r.data.walletAddress) THEN ErrorOf("Failed to verify login code")
     ELSE NoError

NoWallet ==
  [present |-> FALSE, address |-> Undef, email |-> Undef, chain_id |-> NoNumber,
   isNewUser |-> FALSE, token |-> Undef]

\* createWalletWithEmail: the WalletInfo it returns (created_at, the time of
\* the call, is left out).
WalletInfoOf(body, email, cfg) ==
  [present |-> TRUE, address |-> body.walletAddress, email |-> email,
   chain_id |-> cfg.chainId, isNewUser |-> body.isNewUser, token |-> body.token]

\* A chain id without the last fallback.
deployChainId_NoDefault(chainId, cfg) ==
  IF TruthyNumber(chainId) THEN chainId ELSE cfg.chainId
\* const deployChainId = chainId || this.config.chainId || 1
deployChainId(chainId, cfg) ==
  IF TruthyNumber(chainId) THEN chainId
  ELSE IF TruthyNumber(cfg.chainId) THEN cfg.chainId
  ELSE 1

\* Constructor parameters that leave initialSupply out for '0' only.
constructorParams_ZeroOnly(walletAddress, meta) ==
  IF meta.initialSupply # <<"0">>
    THEN [name |-> meta.name, symbol |-> meta.symbol,
          primarySaleRecipient |-> walletAddress,
          initialSupply |-> meta.initialSupply]
    ELSE [name |-> meta.name, symbol |-> meta.symbol,
          primarySaleRecipient |-> walletAddress]
\* deployERC20Contract: the constructor parameters; initialSupply is added
\* when tokenMetadata.initialSupply is truthy and not '0'.
constructorParams(walletAddress, meta) ==
  IF HasText(meta.initialSupply) /\ meta.initialSupply # <<"0">>
    THEN [name |-> meta.name, symbol |-> meta.symbol,
          primarySaleRecipient |-> walletAddress,
          initialSupply |-> meta.initialSupply]
    ELSE [name |-> meta.name, symbol |-> meta.symbol,
          primarySaleRecipient |-> walletAddress]

\* deployERC20Contract: the body of POST /v1/contracts.
DeployPayload(walletAddress, meta, chainId, cfg) ==
  [chainId |-> deployChainId(chainId, cfg),
   contractUrl |-> "https://thirdweb.com/thirdweb.eth/TokenERC20",
   from |-> walletAddress,
   constructorParams |-> constructorParams(walletAddress, meta)]

\* A deployment that takes every 2xx answer with a body for a success.
DeployFailure_AnyBody(res) ==
  LET r == Settled(res)
  IN IF ~r.ok THEN r.error
     ELSE IF r.data.null THEN TypeErr
     ELSE NoError
\* deployERC20Contract: the error thrown after the POST settled; NoError
\* when the answer carries a result.
DeployFailure(res) ==
  LET r == Settled(res)
  IN IF ~r.ok THEN r.error
     ELSE IF r.data.null THEN TypeErr
     ELSE IF ~r.data.hasResult THEN ErrorOf("Failed to deploy contract")
     ELSE NoError

NoContract ==
  [present |-> FALSE, contractAddress |-> Undef, transactionId |-> Undef,
   chainId |-> NoNumber, deployer |-> Undef, tokenName |-> Undef,
   tokenSymbol |-> Undef, tokenDescription |-> Undef]

\* A ContractInfo that takes the chain id of the answer.
ContractInfoOf_ResponseChain(body, walletAddress, meta, chainId, cfg) ==
  [present |-> TRUE, contractAddress |-> body.address,
   transactionId |-> body.transactionId,
   chainId |-> body.chainId, deployer |-> walletAddress,
   tokenName |-> meta.name, tokenSymbol |-> meta.symbol,
   tokenDescription |-> meta.description]
\* deployERC20Contract: the ContractInfo it returns (deployed_at, the time
\* of the call, is left out).
ContractInfoOf(body, walletAddress, meta, chainId, cfg) ==
  [present |-> TRUE, contractAddress |-> body.address,
   transactionId |-> body.transactionId,
   chainId |-> deployChainId(chainId, cfg), deployer |-> walletAddress,
   tokenName |-> meta.name, tokenSymbol |-> meta.symbol,
   tokenDescription |-> meta.description]

\* Answers of POST /v1/wallets/login/code.
SendHttpResults ==
  {Resp(200, [null |-> FALSE, success |-> b]) : b \in BOOLEAN} \cup
  {Resp(200, NullBody), Resp(400, NullBody), Resp(500, NullBody), NoResp("network")}

\* Answers of POST /v1/wallets/login/code/verify.
VerifyHttpResults ==
  {Resp(200, [null |-> FALSE, walletAddress |-> Addr, token |-> t, isNewUser |-> TRUE]) :
      t \in Tokens} \cup
  {Resp(200, [null |-> FALSE, walletAddress |-> Addr, token |-> Tok(TOKEN_KEPT + 1), isNewUser |-> FALSE])} \cup
  {Resp(200, [null |-> FALSE, walletAddress |-> a, token |-> t, isNewUser |-> FALSE]) :
      a \in {Undef, <<>>}, t \in {Undef, Tok(1)}} \cup
  {Resp(200, NullBody), Resp(401, NullBody), NoResp("timeout")}

\* Answers of POST /v1/contracts.
DeployHttpResults ==
  {Resp(200, [null |-> FALSE, hasResult |-> TRUE, address |-> a, chainId |-> 8453,
              transactionId |-> t]) :
      a \in {ContractAddr, Undef}, t \in {TxId, Undef}} \cup
  {Resp(200, [null |-> FALSE, hasResult |-> FALSE, address |-> Undef, chainId |-> NoNumber,
              transactionId |-> Undef]),
   Resp(200, NullBody), Resp(403, NullBody), NoResp("network")}


\* No client was constructed yet.
NoConfig ==
  [built |-> FALSE, apiKey |-> Absent, chainId |-> NoNumber,
   ecosystemId |-> Undef, ecosystemPartnerId |-> Undef]

NoMeta ==
  [name |-> Undef, symbol |-> Undef, description |-> Undef,
   decimals |-> NoNumber, initialSupply |-> Undef]

\* No client method is running.
NoFrame ==
  [op |-> "none", email |-> Undef, otpCode |-> Undef, walletAddress |-> Undef,
   meta |-> NoMeta, chainId |-> NoNumber]

\* The answer of a request that has not settled.
Pending == [kind |-> "pending", status |-> 0, body |-> [null |-> TRUE, cause |-> "pending"]]

NoRequest ==
  [method |-> "none", path |-> "", authorization |-> Undef, body |-> [type |-> "none"],
   answer |-> Pending]

NoDraft ==
  [deployContract |-> Undef, name |-> Undef, symbol |-> Undef, description |-> Undef,
   decimalsInput |-> Undef]

\* No save was decided; otherwise the kind of file and the answer to the
\* save prompt.
NoFile == [kind |-> "none", saveToFile |-> Undef]

\* chainId: process.env.DEFAULT_CHAIN_ID ? parseInt(process.env.DEFAULT_CHAIN_ID) : 1
ConfigChainId(env) == IF HasText(env) THEN parseInt(env) ELSE 1

\* The ThirdwebConfig built by main and runNonInteractive.
ConfigOf(key, env, ecosystemId, ecosystemPartnerId) ==
  [built |-> TRUE, apiKey |-> key, chainId |-> ConfigChainId(env),
   ecosystemId |-> ecosystemId, ecosystemPartnerId |-> ecosystemPartnerId]

\* getTokenMetadata: the decimals it returns for the (trimmed) answer.
DecimalsOf(decimalsInput) ==
  LET decimals == IF HasText(decimalsInput) THEN parseInt(decimalsInput) ELSE 18
  IN IF isNaN(decimals) THEN 18 ELSE decimals

\* getTokenMetadata: whether it prints 'Invalid decimals. Using default value of 18.'
WarnsDecimals(decimalsInput) ==
  LET decimals == IF HasText(decimalsInput) THEN parseInt(decimalsInput) ELSE 18
  IN isNaN(decimals) \/ decimals < 0 \/ decimals > 18

\* getTokenMetadata: the TokenMetadata it returns for the (trimmed) answers.
TokenMetadataOf(name, symbol, description, decimalsInput, initialSupplyInput) ==
  [name |-> name, symbol |-> toUpperCase(symbol), description |-> description,
   decimals |-> DecimalsOf(decimalsInput),
   initialSupply |-> IF HasText(initialSupplyInput) THEN initialSupplyInput ELSE <<"0">>]

\* The wallet object written to a file: the WalletInfo with its token cut to
\* the first 20 characters and "..." appended, or with no token when the
\* WalletInfo has none or an empty one (JSON.stringify drops undefined).
SafeWallet(w) ==
  IF HasText(w.token)
    THEN [address |-> w.address, email |-> w.email, chain_id |-> w.chain_id,
          isNewUser |-> w.isNewUser,
          token |-> substring0(w.token, TOKEN_KEPT) \o <<".", ".", ".">>]
    ELSE [address |-> w.address, email |-> w.email, chain_id |-> w.chain_id,
          isNewUser |-> w.isNewUser]

\* saveWalletInfo: the file it writes (Date.now() in the name is left out).
WalletFile(w) ==
  [kind |-> "wallet", addr8 |-> substring0(w.address, 8), wallet |-> SafeWallet(w)]

\* saveCompleteInfo: the file it writes (Date.now() in the name is left out).
DeploymentFile(w, c) ==
  [kind |-> "deployment", addr8 |-> substring0(c.contractAddress, 8),
   wallet |-> SafeWallet(w), contract |-> c]

---------------------------------------------------------------------------
(* Transaction checker                                                     *)

maxAttempts == 120

TxStatuses == {"pending", "completed", "failed", "cancelled"}

\* Bodies of a 2xx answer of GET /v1/transactions/{id}: the transaction under
\* "result" or at the top level, with a status, an empty status or none.
TxBodies ==
  {NullBody} \cup
  {[null |-> FALSE, hasResult |-> TRUE, resultStatus |-> s, status |-> Absent] :
      s \in TxStatuses \cup {Absent, Empty}} \cup
  {[null |-> FALSE, hasResult |-> FALSE, resultStatus |-> Absent, status |-> s] :
      s \in TxStatuses \cup {Absent, Empty}}

TxHttpResults ==
  {Resp(200, b) : b \in TxBodies} \cup
  {Resp(c, NullBody) : c \in {404, 500}} \cup
  {NoResp("network"), NoResp("timeout")}

\* Command lines of the checker (process.argv.slice(2)).
CheckerArgvs ==
  { <<>>, <<"tx-1">>, <<"tx-1", "--watch">>, <<"tx-1", "-w">>,
    <<"--watch", "tx-1">>, <<"--watch">>, <<"-w", "--debug">>,
    <<"tx-1", "--debug">>, <<"tx-1", "-d">>, <<"--debug">>,
    <<"tx-1", "--watch", "-d">>, <<"--help">>, <<"tx-1", "-h">>,
    <<"-h", "--watch">>, <<"", "--watch">> }

\* Values of THIRDWEB_API_KEY in the environment.
ApiKeys == {Absent, Empty, "sk-1"}

VARIABLES
  args,            \* process.argv.slice(2)
  apiKey,          \* process.env.THIRDWEB_API_KEY
  envChainId,      \* process.env.DEFAULT_CHAIN_ID
  inFlight,        \* number of HTTP requests issued and not yet settled
  console,         \* what the most recent step printed
  exitCode,        \* the process's exit status, Running until it ends
  \* transaction checker
  cpc,             \* position of main
  transactionId,   \* args[0]
  watchMode,       \* --watch / -w given
  debugMode,       \* --debug / -d given
  attempts,        \* the watch loop's counter
  polls,           \* number of GET /v1/transactions/{id} requests issued
  lastPoll,        \* how the most recent poll settled
  nonPendingSeen,  \* history: some poll was answered with a status that is not "pending"
  polledPast,      \* history: a poll was issued after such an answer
  firstTerminal,   \* history: index of the first poll answered with a non-empty status other than "pending" (0: none)
  \* API client
  config,          \* this.config
  authHeader,      \* this.client.defaults.headers['Authorization']
  frame,           \* arguments and locals (otpCode) of the client method that is running
  lastRequest,     \* the most recent request handed to the HTTP layer, with its answer
  nRequests,       \* number of requests handed to the HTTP layer
  trace,           \* history: steps of the most recent createWalletWithEmail call
  \* wallet / deploy tool (or a program that calls the client)
  driver,          \* "cli" until handleCliArgs chose, then "main" or "nonInteractive"; "caller" for a direct user of the class
  wpc,             \* position of the flow
  walletInfo,      \* the WalletInfo most recently returned
  draft,           \* the answer to the deploy question and to getTokenMetadata's so far
  contractInfo,    \* the ContractInfo most recently returned
  pendingFile,     \* the save decided at the save prompt, with the answer given
  files,           \* the files written
  lastError        \* what the most recent client call threw (NoError: it returned)

envVars == <<args, apiKey, envChainId>>
checkerVars == <<cpc, transactionId, watchMode, debugMode, attempts, polls,
                 lastPoll, nonPendingSeen, polledPast, firstTerminal>>
clientVars == <<config, authHeader, frame, lastRequest, nRequests, trace>>
flowVars == <<driver, wpc, walletInfo, draft, contractInfo, pendingFile, files, lastError>>
walletVars == <<clientVars, flowVars>>

vars == <<envVars, inFlight, console, exitCode, checkerVars, walletVars>>

\* args.includes(a) || args.includes(b)
includes(a, flags) == \E i \in 1..Len(a) : a[i] \in flags

\* args[0]
FirstArg(a) == IF Len(a) = 0 THEN Absent ELSE a[1]

\* response.result || response
UnwrapResult(body) ==
  IF body.hasResult THEN [status |-> body.resultStatus] ELSE [status |-> body.status]

\* The transaction status an answer reports: the status of the transaction
\* object it carries (Absent when the request failed or the body is empty).
ReportedStatus(res) ==
  IF res.kind = "response" /\ Is2xx(res.status) /\ ~res.body.null
    THEN (IF res.body.hasResult THEN res.body.resultStatus ELSE res.body.status)
    ELSE Absent
\* The answer is a transaction object (a 2xx answer with a body).
Answered(res) == res.kind = "response" /\ Is2xx(res.status) /\ ~res.body.null

\* checkTransactionStatus: the body on a 2xx answer, else the interceptor's
\* error re-thrown.
checkTransactionStatus(res) ==
  IF res.kind = "response" /\ Is2xx(res.status)
    THEN [ok |-> TRUE, data |-> res.body, error |-> NoError]
    ELSE [ok |-> FALSE, data |-> NullBody, error |-> responseInterceptor(res)]

\* What is thrown inside main after checkTransactionStatus settled: its
\* error, or the TypeError of reading .result of a null body; NoError when
\* nothing is thrown.
ThrownInMain(r) ==
  IF ~r.ok THEN r.error
  ELSE IF r.data.null THEN TypeErr
  ELSE NoError

\* The status read by main (txData.status) when nothing was thrown.
StatusRead(r) == UnwrapResult(r.data).status

\* A loop condition that lets the counter reach the maximum.
WatchLoopContinues_OffByOne(a) == a <= maxAttempts
\* while (attempts < maxAttempts)
WatchLoopContinues(a) == a < maxAttempts

\* A break test that takes a missing status for a final one.
StopsWatching_NotPending(status) == status # "pending"
\* if (txData.status && txData.status !== 'pending') break
StopsWatching(status) == Truthy(status) /\ status # "pending"

\* A try block that displays the status only when the watch stops.
WatchTryPrints_OnlyAtEnd(status) ==
  IF StopsWatching(status) THEN {"rawResponse", "status", "stopWatch"}
  ELSE {"rawResponse", "waiting"}
\* The watch loop's try block: what it prints once the poll returned a
\* transaction object: the status, then the stop or the wait message.
WatchTryPrints(status) ==
  {"rawResponse", "status"} \cup (IF StopsWatching(status) THEN {"stopWatch"} ELSE {"waiting"})

\* The watch loop's catch block: what it prints for the caught error.
WatchCatchPrints(err) ==
  {"errorDuringWatch"} \cup
  (IF HasStatusCode(err) /\ err.status_code = 404 THEN {"notFoundHint"} ELSE {})

\* A catch block that retries after an HTTP error only.
WatchCatchRetries_HttpOnly(err, a) == err.type = "ApiError" /\ a < maxAttempts
\* A catch block that gives up on a 404.
WatchCatchRetries_NotFoundEnds(err, a) == err.status_code # 404 /\ a < maxAttempts
\* The watch loop's catch block, after attempts++: if (attempts < maxAttempts)
\* it announces the retry and waits 5 s.
WatchCatchRetries(err, a) == a < maxAttempts

\* main's catch block: what it prints for the caught error before exiting.
MainCatchPrints(err) ==
  {"errorChecking"} \cup
  (IF HasStatusCode(err) THEN {"statusLine", "messageLine"} ELSE {}) \cup
  (IF HasStatusCode(err) /\ err.status_code = 404 THEN {"tip"} ELSE {})

NoPoll == [ok |-> FALSE, status |-> Absent, error |-> NoError]

\* The transaction checker before main ran.
CheckerIdle ==
  /\ cpc = "start"
  /\ transactionId = Absent
  /\ watchMode = FALSE
  /\ debugMode = FALSE
  /\ attempts = 0
  /\ polls = 0
  /\ lastPoll = NoPoll
  /\ nonPendingSeen = FALSE
  /\ polledPast = FALSE
  /\ firstTerminal = 0

\* No client constructed, no flow started.
WalletIdle ==
  /\ config = NoConfig
  /\ authHeader = Undef
  /\ frame = NoFrame
  /\ lastRequest = NoRequest
  /\ nRequests = 0
  /\ trace = <<>>
  /\ wpc = "start"
  /\ walletInfo = NoWallet
  /\ draft = NoDraft
  /\ contractInfo = NoContract
  /\ pendingFile = NoFile
  /\ files = {}
  /\ lastError = NoError

InitChecker ==
  /\ args \in CheckerArgvs
  /\ apiKey \in ApiKeys
  /\ envChainId = Undef
  /\ driver = "checker"
  /\ inFlight = 0
  /\ console = {}
  /\ exitCode = Running
  /\ CheckerIdle
  /\ WalletIdle

\* main up to its first await: help, argument and environment checks, then
\* the first request of the watch loop or the single request.
CheckerMain ==
  /\ cpc = "start"
  /\ driver = "checker"
  /\ UNCHANGED <<envVars, walletVars, lastPoll, nonPendingSeen, polledPast, firstTerminal, attempts>>
  /\ IF includes(args, {"--help", "-h"})
       THEN /\ console' = {"help"}
            /\ exitCode' = 0
            /\ cpc' = "exited"
            /\ UNCHANGED <<transactionId, watchMode, debugMode, polls, inFlight>>
       ELSE /\ transactionId' = FirstArg(args)
            /\ watchMode' = includes(args, {"--watch", "-w"})
            /\ debugMode' = includes(args, {"--debug", "-d"})
            /\ IF ~Truthy(FirstArg(args))
                 THEN /\ console' = {"idRequired", "usage"}
                      /\ exitCode' = 1
                      /\ cpc' = "exited"
                      /\ UNCHANGED <<polls, inFlight>>
               ELSE IF ~Truthy(apiKey)
                 THEN /\ console' = {"apiKeyRequired"}
                      /\ exitCode' = 1
                      /\ cpc' = "exited"
                      /\ UNCHANGED <<polls, inFlight>>
               ELSE IF includes(args, {"--watch", "-w"})
                 THEN /\ console' = {"watching", "checking"}
                      /\ polls' = polls + 1
                      /\ inFlight' = inFlight + 1
                      /\ cpc' = "watchAwait"
                      /\ exitCode' = Running
                 ELSE /\ console' = {"checking"}
                      /\ polls' = polls + 1
                      /\ inFlight' = inFlight + 1
                      /\ cpc' = "singleAwait"
                      /\ exitCode' = Running

\* The watch loop leaves the while statement: the budget message when the
\* counter reached the maximum, then main returns.
WatchExit(a, printed) ==
  /\ console' = printed \cup (IF a >= maxAttempts THEN {"maxReached"} ELSE {})
  /\ cpc' = "done"
  /\ exitCode' = 0
  /\ UNCHANGED <<polls, inFlight>>

\* A poll of the watch loop settles: the try block up to the 5 s timer, the
\* break, or the catch block up to its timer or to the end of the loop.
WatchPollSettles ==
  /\ cpc = "watchAwait"
  /\ \E res \in TxHttpResults :
       LET r == checkTransactionStatus(res)
           err == ThrownInMain(r)
           st == IF err = NoError THEN StatusRead(r) ELSE Absent
           idx == polls
       IN
       /\ lastPoll' = [ok |-> err = NoError, status |-> st, error |-> err]
       /\ nonPendingSeen' =
            (nonPendingSeen \/ (Answered(res) /\ ReportedStatus(res) # "pending"))
       /\ polledPast' = polledPast
       /\ firstTerminal' =
            IF firstTerminal = 0 /\ Answered(res) /\ ReportedStatus(res) \in TxStatuses \ {"pending"}
              THEN idx ELSE firstTerminal
       /\ IF err = NoError
            THEN IF StopsWatching(st)
                   THEN /\ attempts' = attempts
                        /\ inFlight' = inFlight - 1
                        /\ console' = WatchTryPrints(st) \cup
                                      (IF attempts >= maxAttempts THEN {"maxReached"} ELSE {})
                        /\ cpc' = "done"
                        /\ exitCode' = 0
                        /\ polls' = polls
                   ELSE /\ attempts' = attempts + 1
                        /\ inFlight' = inFlight - 1
                        /\ console' = WatchTryPrints(st)
                        /\ cpc' = "watchDelay"
                        /\ exitCode' = Running
                        /\ polls' = polls
            ELSE /\ attempts' = attempts + 1
                 /\ inFlight' = inFlight - 1
                 /\ polls' = polls
                 /\ LET printed == WatchCatchPrints(err)
                    IN IF WatchCatchRetries(err, attempts + 1)
                         THEN /\ console' = printed \cup {"retrying"}
                              /\ cpc' = "watchDelay"
                              /\ exitCode' = Running
                         ELSE /\ console' = printed \cup
                                   (IF attempts + 1 >= maxAttempts THEN {"maxReached"} ELSE {})
                              /\ cpc' = "done"
                              /\ exitCode' = 0
  /\ UNCHANGED <<envVars, walletVars, transactionId, watchMode, debugMode>>

\* The 5 s timer fires: the while condition is evaluated again, and the next
\* poll is issued or the loop ends.
WatchDelayElapses ==
  /\ cpc = "watchDelay"
  /\ IF WatchLoopContinues(attempts)
       THEN /\ polls' = polls + 1
            /\ inFlight' = inFlight + 1
            /\ console' = {"checking"}
            /\ cpc' = "watchAwait"
            /\ exitCode' = Running
            /\ polledPast' = (polledPast \/ nonPendingSeen)
       ELSE /\ WatchExit(attempts, {})
            /\ polledPast' = polledPast
  /\ UNCHANGED <<envVars, walletVars, transactionId, watchMode, debugMode, attempts,
                 lastPoll, nonPendingSeen, firstTerminal>>

\* The single check's request settles: the status is displayed and main
\* returns, or main's catch prints the error and exits with status 1.
SinglePollSettles ==
  /\ cpc = "singleAwait"
  /\ \E res \in TxHttpResults :
       LET r == checkTransactionStatus(res)
           err == ThrownInMain(r)
           st == IF err = NoError THEN StatusRead(r) ELSE Absent
       IN
       /\ lastPoll' = [ok |-> err = NoError, status |-> st, error |-> err]
       /\ inFlight' = inFlight - 1
       /\ IF err = NoError
            THEN /\ console' = {"rawResponse", "status"}
                 /\ cpc' = "done"
                 /\ exitCode' = 0
            ELSE /\ console' = MainCatchPrints(err)
                 /\ cpc' = "exited"
                 /\ exitCode' = 1
  /\ UNCHANGED <<envVars, walletVars, transactionId, watchMode, debugMode, attempts,
                 polls, nonPendingSeen, polledPast, firstTerminal>>

NextChecker ==
  \/ CheckerMain
  \/ WatchPollSettles
  \/ WatchDelayElapses
  \/ SinglePollSettles

SpecChecker == InitChecker /\ [][NextChecker]_vars

---------------------------------------------------------------------------
(* Wallet / deploy tool: handleCliArgs, main and runNonInteractive          *)

\* An element of the command line: a flag, or a value with its text.
Flag(f) == [flag |-> f, text |-> <<"-", "-", f>>]
Value(t) == [flag |-> "", text |-> t]

\* Command lines of the wallet tool (process.argv.slice(2)).
WalletArgvs ==
  { <<>>,
    <<Flag("--help")>>,
    <<Flag("--email"), Value(GoodEmail), Flag("-h")>>,
    <<Flag("--email")>>,
    <<Flag("--email"), Value(GoodEmail)>>,
    <<Flag("--email"), Value(<<"u", "@">>)>>,
    <<Flag("--email"), Value(GoodEmail), Flag("--ecosystem-id"), Value(<<"e", "c", "o">>)>>,
    <<Flag("--email"), Value(GoodEmail), Flag("--ecosystem-id"), Value(<<" ">>)>>,
    <<Flag("--email"), Value(GoodEmail), Flag("--ecosystem-id"), Value(<<"e", "c", "o">>),
      Flag("--ecosystem-partner-id"), Value(<<"p">>)>>,
    <<Flag("--email"), Value(GoodEmail), Flag("--ecosystem-partner-id"), Value(<<>>)>>,
    <<Flag("--ecosystem-id"), Value(<<"e", "c", "o">>)>> }

\* Values of DEFAULT_CHAIN_ID in the environment.
EnvChainIds == {Undef, <<"1", "3", "7">>, <<"0">>, <<"a", "b", "c">>}

\* Lines typed at the prompts.
YesNoTyped == {<<"y">>, <<"Y", "E", "S">>, <<" ", "y", " ">>, <<"n">>, <<>>}
EmailsTyped == {GoodEmail, <<" ">> \o GoodEmail, <<"u", "@">>, <<"u", ".", "c">>, <<>>}
EcosystemIdsTyped == {<<"e", "c", "o">>, <<" ">>}
PartnerIdsTyped == {<<"p">>, <<>>}
OtpsTyped == {<<"1", "2", "3", "4">>, <<" ", "1", "2", "3", " ">>, <<"1", "2", "3">>, <<>>}
\* What a calling program's OTP callback resolves with.
CallerOtps == {<<"1", "2", "3", "4">>, <<>>}
NamesTyped == {<<"T">>, <<>>}
SymbolsTyped == {<<"m", "T", "k">>, <<" ", "m", "1">>, <<>>}
DescriptionsTyped == {<<"d">>, <<" ">>}
DecimalsTyped == {<<>>, <<"8">>, <<"0">>, <<"1", "9">>, <<"-", "1">>, <<"x">>, <<"8", "x">>}
SuppliesTyped == {<<>>, <<"0">>, <<"1", "0", "0">>}

\* args.includes(a) || args.includes(b)
includesFlag(a, flags) == \E i \in 1..Len(a) : a[i].flag \in flags

\* args.indexOf(flag), counted from 1 (0: not found)
indexOf(a, f) ==
  IF \E i \in 1..Len(a) : a[i].flag = f
    THEN SetMin({i \in 1..Len(a) : a[i].flag = f})
    ELSE 0

\* The value that follows the flag, when the flag is there and is not the
\* last element (idx !== -1 && idx + 1 < args.length); Undef otherwise.
FlagValue(a, f) ==
  IF indexOf(a, f) # 0 /\ indexOf(a, f) + 1 <= Len(a)
    THEN a[indexOf(a, f) + 1].text
    ELSE Undef

\* The request a client method hands to the HTTP layer: the default
\* headers of that moment go with it.
Issue(method, path, body) ==
  /\ lastRequest' = [method |-> method, path |-> path,
                     authorization |-> authHeader, body |-> body, answer |-> Pending]
  /\ nRequests' = nRequests + 1
  /\ inFlight' = inFlight + 1

\* A request that is not awaited: it stays in flight when the flow goes on.
Settle_NotAwaited(res) ==
  /\ inFlight' = inFlight
  /\ lastRequest' = [lastRequest EXCEPT !.answer = res]
  /\ UNCHANGED nRequests
\* The request in flight settles with the answer res, which the history of
\* the request keeps.
Settle(res) ==
  /\ inFlight' = inFlight - 1
  /\ lastRequest' = [lastRequest EXCEPT !.answer = res]
  /\ UNCHANGED nRequests

\* The process ends: process.exit(code), or main returned (code 0).
Ends(how, code, printed) ==
  /\ wpc' = how
  /\ exitCode' = code
  /\ console' = printed

\* createWalletWithEmail starts: it calls sendLoginCode, which posts.
StartsCreateWallet(email) ==
  /\ frame' = [NoFrame EXCEPT !.op = "createWalletWithEmail", !.email = email]
  /\ trace' = <<"send">>
  /\ Issue("POST", "/v1/wallets/login/code", [email |-> email, type |-> "email"])

\* handleCliArgs: what the command line selects.
CliChoice ==
  LET email == FlagValue(args, "--email")
      ecosystemId == FlagValue(args, "--ecosystem-id")
      ecosystemPartnerId == FlagValue(args, "--ecosystem-partner-id")
  IN IF includesFlag(args, {"--help", "-h"}) THEN "help"
     ELSE IF email = Undef THEN "main"
     ELSE IF ~isValidEmail(email) THEN "invalidEmail"
     ELSE IF ecosystemId # Undef /\ trim(ecosystemId) = <<>> THEN "emptyEcosystemId"
     ELSE IF ecosystemPartnerId # Undef /\ trim(ecosystemPartnerId) = <<>> THEN "emptyPartnerId"
     ELSE "nonInteractive"

\* handleCliArgs, then main up to its first prompt or runNonInteractive up
\* to the send-code request.
WalletStart ==
  /\ wpc = "start"
  /\ driver = "cli"
  /\ UNCHANGED <<envVars, checkerVars, authHeader, walletInfo, draft, contractInfo,
                 pendingFile, files, lastError>>
  /\ CASE CliChoice = "help" ->
            /\ Ends("exited", 0, {"help"})
            /\ UNCHANGED <<driver, config, frame, trace, lastRequest, nRequests, inFlight>>
       [] CliChoice \in {"invalidEmail", "emptyEcosystemId", "emptyPartnerId"} ->
            /\ Ends("exited", 1, {CliChoice})
            /\ UNCHANGED <<driver, config, frame, trace, lastRequest, nRequests, inFlight>>
       [] CliChoice = "main" ->
            /\ driver' = "main"
            /\ IF ~Truthy(apiKey)
                 THEN Ends("exited", 1, {"banner", "apiKeyRequired"})
                 ELSE Ends("askEcosystem", Running, {"banner"})
            /\ UNCHANGED <<config, frame, trace, lastRequest, nRequests, inFlight>>
       [] CliChoice = "nonInteractive" ->
            /\ driver' = "nonInteractive"
            /\ IF ~Truthy(apiKey)
                 THEN /\ Ends("exited", 1, {"apiKeyRequired"})
                      /\ UNCHANGED <<config, frame, trace, lastRequest, nRequests, inFlight>>
                 ELSE /\ config' = ConfigOf(apiKey, envChainId, FlagValue(args, "--ecosystem-id"),
                                            FlagValue(args, "--ecosystem-partner-id"))
                      /\ Ends("awaitSend", Running, {"creatingWallet"})
                      /\ StartsCreateWallet(FlagValue(args, "--email"))

\* main: the answer to 'Do you want to create an ecosystem wallet?'.
AnswerEcosystem ==
  /\ wpc = "askEcosystem"
  /\ \E typed \in YesNoTyped :
       IF SaysYes(askQuestion(typed))
         THEN /\ wpc' = "askEcosystemId"
              /\ config' = config
         ELSE /\ wpc' = "askEmail"
              /\ config' = ConfigOf(apiKey, envChainId, Undef, Undef)
  /\ console' = {}
  /\ UNCHANGED <<envVars, checkerVars, inFlight, exitCode, authHeader, frame, lastRequest,
                 nRequests, trace, driver, walletInfo, draft, contractInfo, pendingFile,
                 files, lastError>>

\* main: the answer to 'Enter the ecosystem ID'.
AnswerEcosystemId ==
  /\ wpc = "askEcosystemId"
  /\ \E typed \in EcosystemIdsTyped :
       LET ecosystemId == askQuestion(typed)
       IN IF trim(ecosystemId) = <<>>
            THEN /\ Ends("done", 0, {"emptyEcosystemId"})
                 /\ config' = config
            ELSE /\ Ends("askWantsPartner", Running, {"usingEcosystem"})
                 /\ config' = [config EXCEPT !.ecosystemId = ecosystemId]
  /\ UNCHANGED <<envVars, checkerVars, inFlight, authHeader, frame, lastRequest,
                 nRequests, trace, driver, walletInfo, draft, contractInfo, pendingFile,
                 files, lastError>>

\* main: the answer to 'Do you want to provide an ecosystem partner ID?'.
AnswerWantsPartner ==
  /\ wpc = "askWantsPartner"
  /\ \E typed \in YesNoTyped :
       IF SaysYes(askQuestion(typed))
         THEN /\ wpc' = "askPartnerId"
              /\ config' = config
         ELSE /\ wpc' = "askEmail"
              /\ config' = ConfigOf(apiKey, envChainId, config.ecosystemId, Undef)
  /\ console' = {}
  /\ UNCHANGED <<envVars, checkerVars, inFlight, exitCode, authHeader, frame, lastRequest,
                 nRequests, trace, driver, walletInfo, draft, contractInfo, pendingFile,
                 files, lastError>>

\* main: the answer to 'Enter the ecosystem partner ID'.
AnswerPartnerId ==
  /\ wpc = "askPartnerId"
  /\ \E typed \in PartnerIdsTyped :
       LET ecosystemPartnerId == askQuestion(typed)
       IN IF trim(ecosystemPartnerId) = <<>>
            THEN /\ Ends("done", 0, {"emptyPartnerId"})
                 /\ config' = config
            ELSE /\ Ends("askEmail", Running, {"usingPartner"})
                 /\ config' = ConfigOf(apiKey, envChainId, config.ecosystemId, ecosystemPartnerId)
  /\ UNCHANGED <<envVars, checkerVars, inFlight, authHeader, frame, lastRequest,
                 nRequests, trace, driver, walletInfo, draft, contractInfo, pendingFile,
                 files, lastError>>

\* main: the answer to 'Enter email address for wallet creation'; a valid
\* one starts createWalletWithEmail.
AnswerEmail ==
  /\ wpc = "askEmail"
  /\ \E typed \in EmailsTyped :
       LET email == askQuestion(typed)
       IN IF ~isValidEmail(email)
            THEN /\ Ends("done", 0, {"invalidEmail"})
                 /\ UNCHANGED <<frame, trace, lastRequest, nRequests, inFlight>>
            ELSE /\ Ends("awaitSend", Running, {"creatingWallet"})
                 /\ StartsCreateWallet(email)
  /\ UNCHANGED <<envVars, checkerVars, config, authHeader, driver, walletInfo, draft,
                 contractInfo, pendingFile, files, lastError>>

\* main's catch: what it prints for the error.
WalletCatchPrints(err) ==
  IF HasStatusCode(err) THEN {"error", "status", "message"} ELSE {"error"}

\* A method that prints the error and returns null, as the lookups do.
Throws_Swallowed(err) ==
  /\ lastError' = NoError
  /\ frame' = NoFrame
  /\ Ends("idle", Running, {"errorGetting", "returnedNull"})
\* A client method throws to the code that awaits it: main prints and
\* returns, runNonInteractive exits with 1, a library caller gets the error.
Throws(err) ==
  /\ lastError' = err
  /\ frame' = NoFrame
  /\ CASE driver = "main" -> Ends("done", 0, WalletCatchPrints(err))
       [] driver = "nonInteractive" -> Ends("exited", 1, {"error"})
       [] OTHER -> Ends("idle", Running, {"thrown"})

VerifyPayload_NoCode(email, code) == [email |-> email, code |-> <<>>, type |-> "email"]
\* verifyLoginCode: the payload it posts.
VerifyPayload(email, code) == [email |-> email, code |-> code, type |-> "email"]

OtpRefused_EmptyOnly(otp) == ~HasText(otp)
\* getOtpFromUser: an answer is refused when it is empty or shorter than 4.
OtpRefused(otp) == ~HasText(otp) \/ Len(otp) < 4

\* What came back for a request, as the history of a call records it: the
\* kind of answer, read off the answer itself.
AnswerKind(res) ==
  IF res.kind # "response" THEN "noResponse"
  ELSE IF ~(res.status >= 200 /\ res.status <= 299) THEN "httpError"
  ELSE IF res.body.null THEN "nullBody"
  ELSE "body"

SendAnswerKind(res) ==
  IF AnswerKind(res) # "body" THEN AnswerKind(res)
  ELSE IF res.body.success THEN "successTrue" ELSE "successFalse"

VerifyAnswerKind(res) ==
  IF AnswerKind(res) # "body" THEN AnswerKind(res)
  ELSE IF res.body.walletAddress \notin {Undef, <<>>} THEN "walletAddress"
  ELSE IF res.body.token = Undef THEN "noAddressNoToken" ELSE "noAddressWithToken"

\* createWalletWithEmail: the send-code request settles; on success the OTP
\* callback is called.
SendSettles ==
  /\ wpc = "awaitSend"
  /\ \E res \in SendHttpResults :
       /\ Settle(res)
       /\ IF SendFailure(res) # NoError
            THEN /\ Throws(SendFailure(res))
                 /\ trace' = Append(trace, SendAnswerKind(res))
            ELSE /\ Ends("askOtp", Running, {"codeSent"})
                 /\ trace' = trace \o <<SendAnswerKind(res), "getOtpCode">>
                 /\ UNCHANGED <<frame, lastError>>
  /\ UNCHANGED <<envVars, checkerVars, config, authHeader, driver, walletInfo, draft,
                 contractInfo, pendingFile, files>>

\* The OTP callback resolves: getOtpFromUser asks again after a refused
\* answer; a library caller's callback resolves with whatever it has.
\* createWalletWithEmail then posts the verification.
AnswerOtp ==
  /\ wpc = "askOtp"
  /\ \E typed \in IF driver = "caller" THEN CallerOtps ELSE OtpsTyped :
       LET otp == IF driver = "caller" THEN typed ELSE askQuestion(typed)
       IN IF driver # "caller" /\ OtpRefused(otp)
            THEN /\ Ends("askOtp", Running, {"invalidOtp"})
                 /\ UNCHANGED <<trace, lastRequest, nRequests, inFlight, frame>>
            ELSE /\ Ends("awaitVerify", Running, {"verifying"})
                 /\ frame' = [frame EXCEPT !.otpCode = otp]
                 /\ trace' = Append(trace, "verify")
                 /\ Issue("POST", "/v1/wallets/login/code/verify",
                          VerifyPayload(frame.email, otp))
  /\ UNCHANGED <<envVars, checkerVars, config, authHeader, driver, walletInfo, draft,
                 contractInfo, pendingFile, files, lastError>>

\* createWalletWithEmail, step 2, when the caller's getOtpCode rejects: the
\* catch block logs and re-throws, and verifyLoginCode is never called.
OtpCallbackFails ==
  /\ wpc = "askOtp"
  /\ driver = "caller"
  /\ trace' = Append(trace, "getOtpCodeFailed")
  /\ Throws(ErrorOf("getOtpCode rejected"))
  /\ UNCHANGED <<envVars, checkerVars, config, authHeader, lastRequest, nRequests, inFlight,
                 driver, walletInfo, draft, contractInfo, pendingFile, files>>

\* Reading a property of an object: undefined when the object has none of
\* that name.
Property(obj, key) == IF key \in DOMAIN obj THEN obj[key] ELSE Undef

\* What main and runNonInteractive print about the wallet they got: the
\* ecosystem lines only when the WalletInfo has the ids.
WalletPrints(w) ==
  {"walletCreated"}
    \cup (IF HasText(Property(w, "ecosystemId")) THEN {"ecosystemId"} ELSE {})
    \cup (IF HasText(Property(w, "ecosystemPartnerId")) THEN {"ecosystemPartnerId"} ELSE {})

\* What runs once createWalletWithEmail returned.
AfterWallet ==
  CASE driver = "main" -> Ends("askDeploy", Running, WalletPrints(walletInfo'))
    [] driver = "nonInteractive" -> Ends("askDeploy", Running, WalletPrints(walletInfo'))
    [] OTHER -> Ends("idle", Running, {"returned"})

\* createWalletWithEmail: the verification settles; with a wallet address
\* in the answer the Authorization header is set and the WalletInfo returned.
VerifySettles ==
  /\ wpc = "awaitVerify"
  /\ \E res \in VerifyHttpResults :
       /\ Settle(res)
       /\ trace' = Append(trace, VerifyAnswerKind(res))
       /\ IF VerifyFailure(res) # NoError
            THEN /\ Throws(VerifyFailure(res))
                 /\ UNCHANGED <<authHeader, walletInfo>>
            ELSE /\ authHeader' = updateAuthHeaders(res.body.token)
                 /\ walletInfo' = WalletInfoOf(res.body, frame.email, config)
                 /\ frame' = NoFrame
                 /\ AfterWallet
                 /\ lastError' = NoError
  /\ UNCHANGED <<envVars, checkerVars, config, driver, draft, contractInfo,
                 pendingFile, files>>

\* The answer to the deploy prompt: main takes y or yes, runNonInteractive
\* takes y only.
AnswerDeploy ==
  /\ wpc = "askDeploy"
  /\ \E typed \in YesNoTyped :
       LET deployContract == askQuestion(typed)
       IN /\ IF driver = "main"
            THEN IF SaysYes(deployContract)
                   THEN Ends("askName", Running, {"tokenConfiguration"})
                   ELSE Ends("askSaveWallet", Running, {})
            ELSE IF SaysY(deployContract)
                   THEN Ends("askName", Running, {"tokenConfiguration"})
                   ELSE Ends("done", 0, {})
          /\ draft' = [NoDraft EXCEPT !.deployContract = deployContract]
  /\ UNCHANGED <<envVars, checkerVars, inFlight, clientVars, driver, walletInfo,
                 contractInfo, pendingFile, files, lastError>>

\* getTokenMetadata: the token name; an empty one starts over.
AnswerName ==
  /\ wpc = "askName"
  /\ \E typed \in NamesTyped :
       LET name == askQuestion(typed)
       IN IF ~HasText(name)
            THEN /\ Ends("askName", Running, {"tokenConfiguration", "nameRequired"})
                 /\ draft' = [NoDraft EXCEPT !.deployContract = draft.deployContract]
            ELSE /\ Ends("askSymbol", Running, {})
                 /\ draft' = [NoDraft EXCEPT !.deployContract = draft.deployContract,
                                              !.name = name]
  /\ UNCHANGED <<envVars, checkerVars, inFlight, clientVars, driver, walletInfo,
                 contractInfo, pendingFile, files, lastError>>

\* getTokenMetadata: the token symbol; an empty one starts over.
AnswerSymbol ==
  /\ wpc = "askSymbol"
  /\ \E typed \in SymbolsTyped :
       LET symbol == askQuestion(typed)
       IN IF ~HasText(symbol)
            THEN /\ Ends("askName", Running, {"tokenConfiguration", "symbolRequired"})
                 /\ draft' = [NoDraft EXCEPT !.deployContract = draft.deployContract]
            ELSE /\ Ends("askDescription", Running, {})
                 /\ draft' = [draft EXCEPT !.symbol = symbol]
  /\ UNCHANGED <<envVars, checkerVars, inFlight, clientVars, driver, walletInfo,
                 contractInfo, pendingFile, files, lastError>>

\* getTokenMetadata: the description; an empty one starts over.
AnswerDescription ==
  /\ wpc = "askDescription"
  /\ \E typed \in DescriptionsTyped :
       LET description == askQuestion(typed)
       IN IF ~HasText(description)
            THEN /\ Ends("askName", Running, {"tokenConfiguration", "descriptionRequired"})
                 /\ draft' = [NoDraft EXCEPT !.deployContract = draft.deployContract]
            ELSE /\ Ends("askDecimals", Running, {})
                 /\ draft' = [draft EXCEPT !.description = description]
  /\ UNCHANGED <<envVars, checkerVars, inFlight, clientVars, driver, walletInfo,
                 contractInfo, pendingFile, files, lastError>>

\* getTokenMetadata: the decimals; an answer that is no number or lies
\* outside 0..18 is warned about.
AnswerDecimals ==
  /\ wpc = "askDecimals"
  /\ \E typed \in DecimalsTyped :
       LET decimalsInput == askQuestion(typed)
       IN /\ Ends("askSupply", Running,
                  IF WarnsDecimals(decimalsInput) THEN {"invalidDecimals"} ELSE {})
          /\ draft' = [draft EXCEPT !.decimalsInput = decimalsInput]
  /\ UNCHANGED <<envVars, checkerVars, inFlight, clientVars, driver, walletInfo,
                 contractInfo, pendingFile, files, lastError>>

\* getTokenMetadata: the initial supply, after which the metadata is
\* returned and deployERC20Contract posts the deployment.
AnswerSupply ==
  /\ wpc = "askSupply"
  /\ \E typed \in SuppliesTyped :
       LET meta == TokenMetadataOf(draft.name, draft.symbol, draft.description,
                                   draft.decimalsInput, askQuestion(typed))
       IN /\ frame' = [NoFrame EXCEPT !.op = "deployERC20Contract",
                                      !.walletAddress = walletInfo.address,
                                      !.meta = meta,
                                      !.chainId = walletInfo.chain_id]
          /\ Issue("POST", "/v1/contracts",
                   DeployPayload(walletInfo.address, meta, walletInfo.chain_id, config))
  /\ Ends("awaitDeploy", Running, {"deploying"})
  /\ UNCHANGED <<envVars, checkerVars, config, authHeader, trace, driver, walletInfo, draft,
                 contractInfo, pendingFile, files, lastError>>

\* What runs once deployERC20Contract returned.
AfterDeploy ==
  CASE driver = "main" -> Ends("askSaveComplete", Running, {"contractDeployed"})
    [] driver = "nonInteractive" -> Ends("done", 0, {"contractDeployed"})
    [] OTHER -> Ends("idle", Running, {"returned"})

\* deployERC20Contract: the deployment request settles.
DeploySettles ==
  /\ wpc = "awaitDeploy"
  /\ \E res \in DeployHttpResults :
       /\ Settle(res)
       /\ IF DeployFailure(res) # NoError
            THEN /\ Throws(DeployFailure(res))
                 /\ UNCHANGED contractInfo
            ELSE /\ contractInfo' = ContractInfoOf(res.body, frame.walletAddress, frame.meta,
                                                   frame.chainId, config)
                 /\ frame' = NoFrame
                 /\ AfterDeploy
                 /\ lastError' = NoError
  /\ UNCHANGED <<envVars, checkerVars, config, authHeader, trace, driver, walletInfo, draft,
                 pendingFile, files>>

\* main: the answer to a save prompt; y or yes starts saveWalletInfo or
\* saveCompleteInfo, which first awaits the import of fs/promises.
AnswerSave ==
  /\ wpc \in {"askSaveWallet", "askSaveComplete"}
  /\ \E typed \in YesNoTyped :
       LET saveToFile == askQuestion(typed)
       IN IF SaysYes(saveToFile)
            THEN /\ Ends("awaitWrite", Running, {})
                 /\ pendingFile' = [kind |-> IF wpc = "askSaveWallet" THEN "wallet"
                                                                     ELSE "deployment",
                                    saveToFile |-> saveToFile]
            ELSE /\ Ends("done", 0, {})
                 /\ pendingFile' = [kind |-> "none", saveToFile |-> saveToFile]
  /\ UNCHANGED <<envVars, checkerVars, inFlight, clientVars, driver, walletInfo, draft,
                 contractInfo, files, lastError>>

\* saveWalletInfo / saveCompleteInfo: the file name cannot be built when
\* the address it is cut from is undefined; the error is caught and printed.
SaveThrows ==
  \/ pendingFile.kind = "wallet" /\ walletInfo.address = Undef
  \/ pendingFile.kind = "deployment" /\ contractInfo.contractAddress = Undef

\* saveWalletInfo / saveCompleteInfo: the file is written, or writing
\* fails; main returns after either.
WriteSettles ==
  /\ wpc = "awaitWrite"
  /\ \E written \in BOOLEAN :
       IF written /\ ~SaveThrows
         THEN /\ files' = files \cup {IF pendingFile.kind = "wallet"
                                        THEN WalletFile(walletInfo)
                                        ELSE DeploymentFile(walletInfo, contractInfo)}
              /\ Ends("done", 0, {"saved"})
         ELSE /\ files' = files
              /\ Ends("done", 0, {"errorSaving"})
  /\ UNCHANGED <<envVars, checkerVars, inFlight, clientVars, driver, walletInfo, draft,
                 contractInfo, pendingFile, lastError>>

\* The wallet tool is started with a command line and an environment.
InitWallet ==
  /\ args \in WalletArgvs
  /\ apiKey \in ApiKeys
  /\ envChainId \in EnvChainIds
  /\ driver = "cli"
  /\ inFlight = 0
  /\ console = {}
  /\ exitCode = Running
  /\ CheckerIdle
  /\ WalletIdle

NextWallet ==
  \/ WalletStart
  \/ AnswerEcosystem
  \/ AnswerEcosystemId
  \/ AnswerWantsPartner
  \/ AnswerPartnerId
  \/ AnswerEmail
  \/ SendSettles
  \/ AnswerOtp
  \/ VerifySettles
  \/ AnswerDeploy
  \/ AnswerName
  \/ AnswerSymbol
  \/ AnswerDescription
  \/ AnswerDecimals
  \/ AnswerSupply
  \/ DeploySettles
  \/ AnswerSave
  \/ WriteSettles

SpecWallet == InitWallet /\ [][NextWallet]_vars

---------------------------------------------------------------------------
(* Either command-line tool                                                 *)

InitTools == InitChecker \/ InitWallet

NextTools == NextChecker \/ NextWallet

SpecTools == InitTools /\ [][NextTools]_vars

---------------------------------------------------------------------------
(* The --email variant started with every short address: handleCliArgs     *)
(* applies isValidEmail to the argument as it is given.                    *)

\* The longest address built from the alphabet below.
MaxEmailLen == 5
EmailAlphabet == {"u", "@", ".", " "}
UserAtExampleCom ==
  <<"u", "s", "e", "r", "@", "e", "x", "a", "m", "p", "l", "e", ".", "c", "o", "m">>
UserAt == <<"u", "s", "e", "r", "@">>
UserDotCom == <<"u", "s", "e", "r", ".", "c", "o", "m">>
EmailArguments ==
  UNION {[1..k -> EmailAlphabet] : k \in 0..MaxEmailLen} \cup
  {UserAtExampleCom, UserAt, UserDotCom}

InitEmail ==
  /\ args \in {<<Flag("--email"), Value(e)>> : e \in EmailArguments}
  /\ apiKey = "sk-1"
  /\ envChainId = Undef
  /\ driver = "cli"
  /\ inFlight = 0
  /\ console = {}
  /\ exitCode = Running
  /\ CheckerIdle
  /\ WalletIdle

\* The tool up to the answer of its first request.
NextEmail ==
  \/ WalletStart
  \/ SendSettles

SpecEmail == InitEmail /\ [][NextEmail]_vars

---------------------------------------------------------------------------
(* A program that uses one ThirdwebClient instance directly                 *)

\* The number of requests after which the calling program makes no further
\* call.
MaxRequests == 5

\* Configurations the client is constructed with (chainId is optional).
CallerConfigs ==
  {[built |-> TRUE, apiKey |-> "sk-1", chainId |-> c,
    ecosystemId |-> Undef, ecosystemPartnerId |-> Undef] : c \in {NoNumber, 137}}

\* Token metadata handed to deployERC20Contract (initialSupply is optional).
CallerSupplies == {Undef, <<>>, <<"0">>, <<"0", "0">>, <<"1", "0", "0">>}
CallerMetas ==
  {[name |-> <<"T">>, symbol |-> <<"m", "T", "k">>, description |-> <<"d">>,
    decimals |-> 18, initialSupply |-> i] : i \in CallerSupplies}
CallerChainIds == {NoNumber, 0, 5}

\* The arguments of its deployERC20Contract calls: the wallet created with
\* every token and no chain id, one token with every chain id, and that
\* token deployed from another address.
CallerDeploys ==
  LET plain == {m \in CallerMetas : m.initialSupply = <<"0">>}
  IN {[walletAddress |-> Addr, meta |-> m, chainId |-> NoNumber] : m \in CallerMetas}
       \cup {[walletAddress |-> Addr, meta |-> m, chainId |-> c] :
                m \in plain, c \in CallerChainIds}
       \cup {[walletAddress |-> <<"0", "x", "9">>, meta |-> m, chainId |-> 5] : m \in plain}

\* Answers of GET /v1/wallets/{address} and GET /v1/contracts/{address}.
GetHttpResults ==
  {Resp(200, [null |-> FALSE]), Resp(200, NullBody), Resp(404, NullBody), NoResp("network")}

\* const queryChainId = chainId || this.config.chainId || 1
queryChainId(chainId, cfg) ==
  IF TruthyNumber(chainId) THEN chainId
  ELSE IF TruthyNumber(cfg.chainId) THEN cfg.chainId
  ELSE 1

\* The client was constructed; no method is running.
InitClient ==
  /\ args = <<>>
  /\ apiKey = "sk-1"
  /\ envChainId = Undef
  /\ driver = "caller"
  /\ inFlight = 0
  /\ console = {}
  /\ exitCode = Running
  /\ CheckerIdle
  /\ config \in CallerConfigs
  /\ authHeader = Undef
  /\ frame = NoFrame
  /\ lastRequest = NoRequest
  /\ nRequests = 0
  /\ trace = <<>>
  /\ wpc = "idle"
  /\ walletInfo = NoWallet
  /\ draft = NoDraft
  /\ contractInfo = NoContract
  /\ pendingFile = NoFile
  /\ files = {}
  /\ lastError = NoError

\* The program may make another call.
MayCall == driver = "caller" /\ wpc = "idle" /\ nRequests < MaxRequests

\* client.createWalletWithEmail(email, getOtpCode)
CallCreateWallet ==
  /\ MayCall
  /\ Ends("awaitSend", Running, {"creatingWallet"})
  /\ StartsCreateWallet(GoodEmail)
  /\ UNCHANGED <<envVars, checkerVars, config, authHeader, driver, walletInfo, draft,
                 contractInfo, pendingFile, files, lastError>>

\* client.sendLoginCode(email)
CallSendLoginCode ==
  /\ MayCall
  /\ frame' = [NoFrame EXCEPT !.op = "sendLoginCode", !.email = GoodEmail]
  /\ Issue("POST", "/v1/wallets/login/code", [email |-> GoodEmail, type |-> "email"])
  /\ Ends("awaitPost", Running, {})
  /\ UNCHANGED <<envVars, checkerVars, config, authHeader, trace, driver, walletInfo, draft,
                 contractInfo, pendingFile, files, lastError>>

\* client.verifyLoginCode(email, code)
CallVerifyLoginCode ==
  /\ MayCall
  /\ \E code \in CallerOtps :
       /\ frame' = [NoFrame EXCEPT !.op = "verifyLoginCode", !.email = GoodEmail]
       /\ Issue("POST", "/v1/wallets/login/code/verify", VerifyPayload(GoodEmail, code))
  /\ Ends("awaitPost", Running, {})
  /\ UNCHANGED <<envVars, checkerVars, config, authHeader, trace, driver, walletInfo, draft,
                 contractInfo, pendingFile, files, lastError>>

\* A verifyLoginCode that keeps the token of its answer.
PostSettles_StoresToken ==
  /\ wpc = "awaitPost"
  /\ \E res \in IF frame.op = "sendLoginCode" THEN SendHttpResults ELSE VerifyHttpResults :
       /\ Settle(res)
       /\ IF PostFailure(res) # NoError
            THEN Throws(PostFailure(res)) /\ UNCHANGED authHeader
            ELSE /\ Ends("idle", Running, {"returned"})
                 /\ frame' = NoFrame
                 /\ lastError' = NoError
                 /\ authHeader' = IF frame.op = "verifyLoginCode" /\ ~res.body.null
                                    THEN updateAuthHeaders(res.body.token) ELSE authHeader
  /\ UNCHANGED <<envVars, checkerVars, config, trace, driver, walletInfo, draft,
                 contractInfo, pendingFile, files>>
\* sendLoginCode / verifyLoginCode called directly: the request settles and
\* the method returns response.data or re-throws.
PostSettles ==
  /\ wpc = "awaitPost"
  /\ \E res \in IF frame.op = "sendLoginCode" THEN SendHttpResults ELSE VerifyHttpResults :
       /\ Settle(res)
       /\ IF PostFailure(res) # NoError
            THEN Throws(PostFailure(res))
            ELSE /\ Ends("idle", Running, {"returned"})
                 /\ frame' = NoFrame
                 /\ lastError' = NoError
  /\ UNCHANGED <<envVars, checkerVars, config, authHeader, trace, driver, walletInfo, draft,
                 contractInfo, pendingFile, files>>

\* client.deployERC20Contract(walletAddress, tokenMetadata, chainId)
CallDeploy ==
  /\ MayCall
  /\ \E call \in CallerDeploys :
       /\ frame' = [NoFrame EXCEPT !.op = "deployERC20Contract",
                                   !.walletAddress = call.walletAddress,
                                   !.meta = call.meta, !.chainId = call.chainId]
       /\ Issue("POST", "/v1/contracts",
                DeployPayload(call.walletAddress, call.meta, call.chainId, config))
  /\ Ends("awaitDeploy", Running, {"deploying"})
  /\ UNCHANGED <<envVars, checkerVars, config, authHeader, trace, driver, walletInfo, draft,
                 contractInfo, pendingFile, files, lastError>>

\* client.getWalletInfo(walletAddress)
CallGetWalletInfo ==
  /\ MayCall
  /\ frame' = [NoFrame EXCEPT !.op = "getWalletInfo", !.walletAddress = Addr]
  /\ Issue("GET", "/v1/wallets/{walletAddress}", [type |-> "none"])
  /\ Ends("awaitGet", Running, {})
  /\ UNCHANGED <<envVars, checkerVars, config, authHeader, trace, driver, walletInfo, draft,
                 contractInfo, pendingFile, files, lastError>>

\* client.getContractInfo(contractAddress, chainId)
CallGetContractInfo ==
  /\ MayCall
  /\ \E chainId \in CallerChainIds :
       /\ frame' = [NoFrame EXCEPT !.op = "getContractInfo", !.walletAddress = ContractAddr,
                                   !.chainId = chainId]
       /\ Issue("GET", "/v1/contracts/{contractAddress}",
                [type |-> "query", chainId |-> queryChainId(chainId, config)])
  /\ Ends("awaitGet", Running, {})
  /\ UNCHANGED <<envVars, checkerVars, config, authHeader, trace, driver, walletInfo, draft,
                 contractInfo, pendingFile, files, lastError>>

\* getWalletInfo / getContractInfo: the request settles; the method returns
\* the result, or null after printing any error.
GetSettles ==
  /\ wpc = "awaitGet"
  /\ \E res \in GetHttpResults :
       /\ Settle(res)
       /\ Ends("idle", Running,
               IF Settled(res).ok /\ ~Settled(res).data.null
                 THEN {"returned"}
                 ELSE {"errorGetting", "returnedNull"})
  /\ frame' = NoFrame
  /\ lastError' = NoError
  /\ UNCHANGED <<envVars, checkerVars, config, authHeader, trace, driver, walletInfo, draft,
                 contractInfo, pendingFile, files>>

NextClient ==
  \/ CallCreateWallet
  \/ SendSettles
  \/ AnswerOtp
  \/ OtpCallbackFails
  \/ VerifySettles
  \/ CallSendLoginCode
  \/ CallVerifyLoginCode
  \/ PostSettles
  \/ CallDeploy
  \/ DeploySettles
  \/ CallGetWalletInfo
  \/ CallGetContractInfo
  \/ GetSettles

SpecClient == InitClient /\ [][NextClient]_vars

---------------------------------------------------------------------------
(* Claims about the transaction checker (checked under SpecChecker)        *)

NotFound == [type |-> "ApiError", status_code |-> 404, message |-> "http"]

\* The index N of the first poll answered with a non-empty status other
\* than "pending", capped at 120 (120 when there is none).
CappedFirstTerminal == IF firstTerminal = 0 THEN 120 ELSE Min(firstTerminal, 120)

\* C1 (as amended): in watch mode the checker issues exactly min(N, 120)
\* poll requests, N being the index of the first poll answered with a
\* non-empty status other than "pending" (unbounded when there is none):
\* never more than 120, exactly N once that answer arrived, and exactly
\* min(N, 120) when the watch has ended.
C1_PollCount ==
  /\ polls <= 120
  /\ firstTerminal # 0 => polls = firstTerminal
  /\ (watchMode /\ cpc = "done") => polls = CappedFirstTerminal

\* C1 witness: a watch that ended at its 7th poll, after an earlier poll
\* had been answered without a status.
C1_Witness ==
  watchMode /\ cpc = "done" /\ firstTerminal = 7 /\ polls = 7 /\ polledPast

\* C1 as stated: N is the index of the first poll whose answered status is
\* not "pending". Exactly min(N, 120) requests means: never more than 120,
\* none after the N-th, and 120 when no such answer ever arrived.
C1_Original ==
  /\ polls <= 120
  /\ ~polledPast
  /\ (watchMode /\ cpc = "done" /\ ~nonPendingSeen) => polls = 120

\* C2: in watch mode a poll that fails with HTTP 404 does not end the watch:
\* it uses up exactly one attempt, the loop waits when attempts remain (and
\* ends only when none does), and the step after the wait issues the next
\* poll.
C2_NotFoundRetries ==
  /\ [][(cpc = "watchAwait" /\ lastPoll'.error = NotFound)
          => /\ attempts' = attempts + 1
             /\ polls' = polls
             /\ IF attempts' < 120
                  THEN cpc' = "watchDelay" /\ exitCode' = Running
                  ELSE cpc' = "done"]_vars
  /\ [][(cpc = "watchDelay" /\ attempts < 120)
          => (cpc' = "watchAwait" /\ polls' = polls + 1 /\ attempts' = attempts)]_vars

\* C2 witness: the poll issued after a 404 is in flight.
C2_Witness ==
  watchMode /\ cpc = "watchAwait" /\ lastPoll.error = NotFound /\ polls = attempts + 1
  /\ attempts >= 1 /\ inFlight = 1

\* C3: a single check issues exactly one GET /v1/transactions/{id} and never
\* a second one; when it fails with HTTP 404 the remediation hint is printed
\* and the process exits with status 1.
C3_SingleCheck ==
  (cpc # "start" /\ ~watchMode) =>
    /\ polls <= 1
    /\ cpc = "singleAwait" => polls = 1
    /\ lastPoll # NoPoll => (polls = 1 /\ cpc \in {"done", "exited"} /\ inFlight = 0)
    /\ lastPoll.error = NotFound => ("tip" \in console /\ exitCode = 1 /\ cpc = "exited")

\* C3 witness: a single check answered with 404 has ended.
C3_Witness ==
  ~watchMode /\ cpc = "exited" /\ lastPoll.error = NotFound /\ polls = 1 /\ exitCode = 1

\* The flags of the checker's command line.
CheckerFlags == {"--watch", "-w", "--debug", "-d", "--help", "-h"}

\* C14 as stated: the checker ends with status 1, having issued no request,
\* whenever the command line gives no transaction id (flags only included)
\* or the API key is missing. (Runs asking for help are left aside.)
C14_Original ==
  (/\ cpc # "start"
   /\ ~includes(args, {"--help", "-h"})
   /\ \/ \A i \in 1..Len(args) : args[i] \in CheckerFlags \cup {""}
      \/ apiKey \in {Absent, Empty})
    => (exitCode = 1 /\ polls = 0 /\ cpc = "exited")

\* C14 witness: started with --watch alone, the checker polls for the
\* transaction "--watch".
C14_Witness ==
  args = <<"--watch">> /\ transactionId = "--watch" /\ cpc = "watchAwait" /\ polls = 1

\* C20: the watch ends only with a poll answered by a non-empty status other
\* than "pending", or with the 120 attempts used up; a failed poll (404,
\* other non-2xx, network error, timeout) with attempts left is followed by
\* the 5 s wait, not by the end of the loop.
C20_WatchExits ==
  /\ [][(watchMode /\ cpc \in {"watchAwait", "watchDelay"}
           /\ cpc' \notin {"watchAwait", "watchDelay"})
          => /\ cpc' = "done"
             /\ \/ lastPoll'.ok /\ lastPoll'.status \notin {Absent, Empty, "pending"}
                \/ attempts' >= 120]_vars
  /\ [][(cpc = "watchAwait" /\ ~lastPoll'.ok /\ attempts' < 120)
          => (cpc' = "watchDelay" /\ exitCode' = Running)]_vars

\* C20 witness: the watch ended with its 120th attempt, a poll that got no
\* response.
C20_Witness ==
  /\ watchMode
  /\ cpc = "done"
  /\ attempts = 120
  /\ lastPoll.error.type = "Error"
  /\ "maxReached" \in console

\* One step of the watch loop: a poll request after the first is issued
\* when a 5 s timer fires; a timer is started only when a poll has settled,
\* be it with a status that does not stop the watch or with an error while
\* attempts are left; a poll that returned a transaction object has its
\* status displayed.
WatchStep ==
  /\ (polls' # polls /\ polls > 0) =>
        (cpc = "watchDelay" /\ cpc' = "watchAwait" /\ polls' = polls + 1)
  /\ (cpc' = "watchDelay" /\ cpc # "watchDelay") =>
        /\ cpc = "watchAwait"
        /\ polls' = polls
        /\ attempts' = attempts + 1
        /\ console' \cap {"waiting", "retrying"} # {}
  /\ (cpc = "watchDelay" /\ cpc' # cpc) => cpc' \in {"watchAwait", "done"}
  /\ (cpc = "watchAwait" /\ cpc' # cpc) =>
        /\ (lastPoll'.ok /\ lastPoll'.status \in {"pending", Absent, Empty})
              => cpc' = "watchDelay"
        /\ (~lastPoll'.ok /\ attempts' < maxAttempts) => cpc' = "watchDelay"
        /\ lastPoll'.ok => "status" \in console'

StatusStep ==
  /\ (cpc = "watchAwait" /\ cpc' # cpc /\ lastPoll'.ok) =>
        IF lastPoll'.status \in {Absent, Empty, "pending"}
          THEN /\ attempts' = attempts + 1
               /\ cpc' = "watchDelay"
               /\ exitCode' = Running
               /\ "waiting" \in console'
               /\ "stopWatch" \notin console'
          ELSE /\ attempts' = attempts
               /\ cpc' = "done"
               /\ "stopWatch" \in console'
  /\ (cpc = "watchDelay" /\ cpc' # cpc /\ attempts < maxAttempts) =>
        (cpc' = "watchAwait" /\ polls' = polls + 1)

\* C28: in watch mode a poll whose answer has no status field, or an empty
\* one, is treated like a pending one: it uses up one attempt and the
\* polling goes on; only a non-empty status other than "pending" stops
\* the loop.
C28_MissingStatus == [][StatusStep]_vars

\* C28 witness: the second poll is in flight after a first answer that had
\* no status.
C28_Witness ==
  /\ watchMode
  /\ cpc = "watchAwait"
  /\ polls = 2
  /\ attempts = 1
  /\ lastPoll.ok
  /\ lastPoll.status = Absent

---------------------------------------------------------------------------
(* Claims about createWalletWithEmail and the wallet tool (SpecWallet)      *)

\* C4: when the send-code answer carries success false, createWalletWithEmail
\* fails with an error: in that call the OTP callback is not invoked and no
\* verify request is sent (the call's only request is the send-code one), and
\* no WalletInfo is returned.
C4_RefusedCodeFails ==
  (Len(trace) >= 2 /\ trace[2] = "successFalse") =>
    /\ trace = <<"send", "successFalse">>
    /\ wpc \notin {"askOtp", "awaitVerify"}
    /\ lastError = [type |-> "Error", status_code |-> 0, message |-> "Failed to send login code"]
    /\ nRequests = 1
    /\ lastRequest.path = "/v1/wallets/login/code"
    /\ walletInfo = NoWallet

\* C4 witness: the interactive tool ended after a send-code answer with
\* success false.
C4_Witness ==
  driver = "main" /\ wpc = "done" /\ trace = <<"send", "successFalse">> /\ inFlight = 0

\* C5: when the verify answer has no walletAddress, createWalletWithEmail
\* fails and returns no WalletInfo (and stores no Authorization header),
\* whether the answer carries a token or not.
C5_NoAddressFails ==
  (Len(trace) = 5 /\ trace[5] \in {"noAddressNoToken", "noAddressWithToken"}) =>
    /\ walletInfo = NoWallet
    /\ authHeader = Undef
    /\ lastError = [type |-> "Error", status_code |-> 0, message |-> "Failed to verify login code"]
    /\ wpc \in {"done", "exited"}

\* C5 witness: the tool ended after a verify answer with a token and no
\* wallet address.
C5_Witness ==
  Len(trace) = 5 /\ trace[5] = "noAddressWithToken" /\ wpc = "done" /\ nRequests = 2

\* C7: every file written by saveWalletInfo or saveCompleteInfo holds, for
\* the wallet's bearer token, at most its first 20 characters followed by
\* "...": never the whole of a token longer than 20, and no token elsewhere.
C7_TokenTruncated ==
  \A f \in files :
    /\ "token" \in DOMAIN f.wallet =>
         LET k == Len(f.wallet.token) - 3
         IN /\ walletInfo.token # Undef
            /\ k >= 0 /\ k <= 20 /\ k <= Len(walletInfo.token)
            /\ SubSeq(f.wallet.token, 1, k) = SubSeq(walletInfo.token, 1, k)
            /\ SubSeq(f.wallet.token, k + 1, k + 3) = <<".", ".", ".">>
            /\ Len(walletInfo.token) > 20 => k < Len(walletInfo.token)
    /\ f.kind = "deployment" => "token" \notin DOMAIN f.contract

\* C7 witness: a deployment file was written for a wallet whose token has 22
\* characters.
C7_Witness ==
  \E f \in files :
    /\ f.kind = "deployment"
    /\ Len(walletInfo.token) = 22
    /\ Len(f.wallet.token) = 23

\* The answers that are y or yes in some letter case.
YesAnswers ==
  {<<"y">>, <<"Y">>} \cup
  {<<a, b, c>> : a \in {"y", "Y"}, b \in {"e", "E"}, c \in {"s", "S"}}

\* C8: a file is written only by the interactive tool, only after the wallet
\* was created, and only when the save prompt was answered y or yes; after an
\* error, a declined prompt, or in the non-interactive variant no file
\* exists.
C8_SavedOnlyOnYes ==
  /\ files # {} =>
       /\ driver = "main"
       /\ walletInfo.present
       /\ lastError = NoError
       /\ pendingFile.saveToFile \in YesAnswers
       /\ Cardinality(files) = 1
  /\ (driver = "nonInteractive" \/ lastError # NoError \/ ~walletInfo.present) => files = {}
  /\ (wpc = "done" /\ pendingFile.saveToFile \notin YesAnswers) => files = {}

\* C8 witness: a wallet file was written after the answer YES.
C8_Witness ==
  /\ \E f \in files : f.kind = "wallet"
  /\ pendingFile.saveToFile = <<"Y", "E", "S">>
  /\ wpc = "done"

\* u is s with every lower-case letter replaced by its upper-case letter.
IsUpperCaseOf(u, s) ==
  /\ Len(u) = Len(s)
  /\ \A i \in 1..Len(s) :
       IF \E k \in 1..Len(Lowers) : s[i] = Lowers[k]
         THEN \E k \in 1..Len(Lowers) : s[i] = Lowers[k] /\ u[i] = Uppers[k]
         ELSE u[i] = s[i]

\* C10: for every symbol answered at the prompt, the symbol of the metadata
\* returned by getTokenMetadata, the symbol in the deploy request and the
\* tokenSymbol of the resulting ContractInfo are the upper-cased answer.
C10_SymbolUpperCased ==
  /\ wpc = "awaitDeploy" =>
       /\ IsUpperCaseOf(frame.meta.symbol, draft.symbol)
       /\ IsUpperCaseOf(lastRequest.body.constructorParams.symbol, draft.symbol)
  /\ contractInfo.present => IsUpperCaseOf(contractInfo.tokenSymbol, draft.symbol)

\* C10 witness: a contract was deployed for the mixed-case answer mTk.
C10_Witness ==
  /\ contractInfo.present
  /\ draft.symbol = <<"m", "T", "k">>
  /\ contractInfo.tokenSymbol = <<"M", "T", "K">>

\* The decimals the claim C11 has getTokenMetadata return: the number for
\* an answer that is a number within 0..18, 18 for every other answer.
ClaimedDecimals(d) ==
  IF d # <<>> /\ (\A i \in 1..Len(d) : IndexIn(d[i], Digits) # 0) /\ DigitsValue(d) <= 18
    THEN DigitsValue(d)
    ELSE 18

\* C11 as stated: for a decimals answer that is no number or a number
\* outside 0..18, and for an empty answer, getTokenMetadata returns decimals
\* 18; for a number within 0..18 it returns that number.
C11_Original ==
  (wpc = "awaitDeploy" /\ driver \in {"main", "nonInteractive"}) =>
    frame.meta.decimals = ClaimedDecimals(draft.decimalsInput)

\* C11 witness: the answer 19 was warned about and returned as 19.
C11_Witness ==
  /\ wpc = "awaitDeploy"
  /\ draft.decimalsInput = <<"1", "9">>
  /\ frame.meta.decimals = 19

\* C13 as stated: the wallet tool ends with status 1, having sent no
\* request, whenever the API key is missing, the email is invalid or a
\* supplied ecosystem id is empty, in the interactive flow and in the --email
\* variant alike; with --help or -h it ends with status 0 whatever else is
\* given.
C13_Original ==
  /\ (wpc \in {"done", "exited"}
        /\ console \cap {"apiKeyRequired", "invalidEmail", "emptyEcosystemId"} # {})
       => (exitCode = 1 /\ nRequests = 0)
  /\ (wpc # "start" /\ includesFlag(args, {"--help", "-h"}))
       => (exitCode = 0 /\ nRequests = 0 /\ wpc = "exited")

\* C13 witness: the interactive flow ended with status 0 after refusing the
\* email typed.
C13_Witness ==
  driver = "main" /\ wpc = "done" /\ console = {"invalidEmail"} /\ exitCode = 0

\* C15 as stated, for the wallet tool's two entry points: an error of an
\* API call that reaches the top-level handler is printed and the process
\* ends with a non-zero status.
C15_Original ==
  (wpc \in {"done", "exited"} /\ lastError # NoError) =>
    ("error" \in console /\ exitCode # 0 /\ exitCode # Running)

\* C15 witness: the interactive flow printed an API error and ended with
\* status 0.
C15_Witness ==
  /\ driver = "main"
  /\ wpc = "done"
  /\ lastError.type = "ApiError"
  /\ "error" \in console
  /\ exitCode = 0

\* C19: once the deploy request has settled, deployERC20Contract has
\* returned a ContractInfo only if the 2xx answer carries a result, and then
\* contractAddress and transactionId are the result's; when the 2xx answer
\* lacks a result (or the request failed) it has thrown and there is no
\* ContractInfo.
C19_DeployResult ==
  (lastRequest.path = "/v1/contracts" /\ lastRequest.answer.kind # "pending") =>
    LET a == lastRequest.answer
    IN IF a.kind = "response" /\ a.status >= 200 /\ a.status <= 299
            /\ ~a.body.null /\ a.body.hasResult
         THEN /\ contractInfo.present
              /\ contractInfo.contractAddress = a.body.address
              /\ contractInfo.transactionId = a.body.transactionId
              /\ lastError = NoError
         ELSE /\ contractInfo = NoContract
              /\ lastError # NoError
              /\ wpc \in {"done", "exited"}

\* C19 witness: a 200 answer without a result made the deployment fail.
C19_Witness ==
  /\ lastRequest.path = "/v1/contracts"
  /\ lastRequest.answer.status = 200
  /\ ~lastRequest.answer.body.null
  /\ ~lastRequest.answer.body.hasResult
  /\ contractInfo = NoContract
  /\ lastError.message = "Failed to deploy contract"

\* What a refused answer prints.
ValidationMessages ==
  {"invalidEmail", "invalidOtp", "nameRequired", "symbolRequired", "descriptionRequired"}

\* C23 as stated: in the wallet tool a refused answer (invalid email, empty
\* token name, symbol or description, OTP shorter than 4 characters) leads
\* back to a prompt and throws nothing; so no verify request carries a code
\* shorter than 4 characters and no deploy request an empty name or symbol.
C23_Original ==
  /\ "invalidEmail" \in console => wpc = "askEmail"
  /\ "invalidOtp" \in console => wpc = "askOtp"
  /\ console \cap {"nameRequired", "symbolRequired", "descriptionRequired"} # {}
       => wpc = "askName"
  /\ console \cap ValidationMessages # {} => lastError = NoError
  /\ lastRequest.path = "/v1/wallets/login/code/verify" => Len(lastRequest.body.code) >= 4
  /\ lastRequest.path = "/v1/contracts" =>
       /\ HasText(lastRequest.body.constructorParams.name)
       /\ HasText(lastRequest.body.constructorParams.symbol)

\* C23 (as amended): an OTP shorter than 4 characters leads back to the OTP
\* prompt and an empty token name, symbol or description back to the token
\* name prompt, while an invalid email ends the run with no further prompt
\* and no request sent; none of the refusals throws. No verify request
\* carries a code shorter than 4 characters and no deploy request an empty
\* name or symbol.
C23_ValidationHandled ==
  /\ "invalidEmail" \in console => (wpc \in {"done", "exited"} /\ nRequests = 0)
  /\ "invalidOtp" \in console => wpc = "askOtp"
  /\ console \cap {"nameRequired", "symbolRequired", "descriptionRequired"} # {}
       => wpc = "askName"
  /\ console \cap ValidationMessages # {} => lastError = NoError
  /\ lastRequest.path = "/v1/wallets/login/code/verify" => Len(lastRequest.body.code) >= 4
  /\ lastRequest.path = "/v1/contracts" =>
       /\ HasText(lastRequest.body.constructorParams.name)
       /\ HasText(lastRequest.body.constructorParams.symbol)

\* C23 witness: the interactive flow refused the email typed and ended
\* there, with no further prompt and no request sent.
C23_Witness ==
  /\ driver = "main"
  /\ wpc = "done"
  /\ "invalidEmail" \in console
  /\ nRequests = 0
  /\ lastError = NoError

\* C26 as stated: when an ecosystem id (and perhaps a partner id) was
\* supplied, by prompt or by flag, the WalletInfo createWalletWithEmail
\* returned carries both, the tool prints them, and the saved file has them.
C26_Original ==
  (walletInfo.present /\ HasText(config.ecosystemId)) =>
    /\ Property(walletInfo, "ecosystemId") = config.ecosystemId
    /\ Property(walletInfo, "ecosystemPartnerId") = config.ecosystemPartnerId
    /\ wpc = "askDeploy" => "ecosystemId" \in console
    /\ \A f \in files : Property(f.wallet, "ecosystemId") = config.ecosystemId

\* C26 witness: a run that was given an ecosystem id and a partner id has
\* saved its wallet, and the file has neither.
C26_Witness ==
  /\ HasText(config.ecosystemId)
  /\ HasText(config.ecosystemPartnerId)
  /\ walletInfo.present
  /\ \E f \in files :
       /\ f.kind = "wallet"
       /\ Property(f.wallet, "ecosystemId") = Undef
       /\ Property(f.wallet, "ecosystemPartnerId") = Undef

---------------------------------------------------------------------------
(* Claims about both command-line tools (SpecTools)                         *)

\* C17: in a run of either tool at most one HTTP request is in flight at any
\* moment, and a request (a poll of the checker; a send-code, verify or
\* deploy request of the wallet tool) is issued only when none is in flight.
C17_OneInFlight ==
  /\ [](inFlight <= 1)
  /\ [][(nRequests' # nRequests \/ polls' # polls) => (inFlight = 0 /\ inFlight' = 1)]_vars

\* C17 witness: the deploy request, third of the run, is in flight alone.
C17_Witness ==
  wpc = "awaitDeploy" /\ nRequests = 3 /\ inFlight = 1

---------------------------------------------------------------------------
(* Claims about isValidEmail (SpecEmail)                                    *)

\* A non-empty text without whitespace and without @.
PlainPart(p) == p # <<>> /\ \A i \in 1..Len(p) : p[i] \notin {" ", "@"}

\* e is local@domain.tld with three plain parts.
LocalAtDomainTld(e) ==
  \E a \in 1..Len(e), d \in 1..Len(e) :
    /\ a < d
    /\ e[a] = "@"
    /\ e[d] = "."
    /\ PlainPart(SubSeq(e, 1, a - 1))
    /\ PlainPart(SubSeq(e, a + 1, d - 1))
    /\ PlainPart(SubSeq(e, d + 1, Len(e)))

\* C12: isValidEmail accepts user@example.com and rejects user@, user.com
\* and the empty string; it accepts exactly the texts local@domain.tld whose
\* three parts are non-empty and hold no whitespace and no @. (An accepted
\* --email argument starts the non-interactive run, a rejected one ends the
\* tool with 'Invalid email format provided'.)
C12_EmailForm ==
  wpc # "start" =>
    LET e == args[2].text
    IN /\ LocalAtDomainTld(e) <=> driver = "nonInteractive"
       /\ ~LocalAtDomainTld(e) <=> (console = {"invalidEmail"} /\ wpc = "exited")
       /\ e = UserAtExampleCom => driver = "nonInteractive"
       /\ e \in {UserAt, UserDotCom, <<>>} => (console = {"invalidEmail"} /\ wpc = "exited")

\* C12 witness: user@example.com was accepted and its login code requested.
C12_Witness ==
  args[2].text = UserAtExampleCom /\ driver = "nonInteractive" /\ wpc = "awaitSend"

---------------------------------------------------------------------------
(* Claims about one client instance used directly (SpecClient)              *)

Bearer == <<"B", "e", "a", "r", "e", "r", " ">>

FailedAnswer(a) ==
  \/ a.kind = "noresponse"
  \/ a.kind = "response" /\ (a.status < 200 \/ a.status > 299)

\* C16: once a call whose request failed (non-2xx response or no response)
\* is over, getWalletInfo and getContractInfo have returned null and thrown
\* nothing, while sendLoginCode, verifyLoginCode, createWalletWithEmail and
\* deployERC20Contract have thrown to the caller.
C16_LookupsDegrade ==
  (wpc = "idle" /\ FailedAnswer(lastRequest.answer)) =>
    IF lastRequest.method = "GET"
      THEN lastError = NoError /\ "returnedNull" \in console /\ "thrown" \notin console
      ELSE lastError # NoError /\ console = {"thrown"}

\* C16 witness: getContractInfo returned null after a 404.
C16_Witness ==
  /\ wpc = "idle"
  /\ lastRequest.path = "/v1/contracts/{contractAddress}"
  /\ lastRequest.answer.status = 404
  /\ "returnedNull" \in console
  /\ lastError = NoError


\* C18: a failed HTTP call surfaces in one of two shapes: after a non-2xx
\* response the value thrown is an ApiError whose status_code is the
\* response's status; after no response it is a plain Error with no
\* status_code. The write methods hand that value to their caller as it is.
C18_ErrorShapes ==
  (wpc = "idle" /\ lastRequest.method = "POST" /\ FailedAnswer(lastRequest.answer)) =>
    IF lastRequest.answer.kind = "response"
      THEN lastError = [type |-> "ApiError", status_code |-> lastRequest.answer.status,
                        message |-> "http"]
      ELSE lastError = [type |-> "Error", status_code |-> 0, message |-> "network"]

\* C18 witness: deployERC20Contract threw an ApiError with status 403.
C18_Witness ==
  /\ wpc = "idle"
  /\ lastRequest.path = "/v1/contracts"
  /\ lastRequest.answer.status = 403
  /\ lastError.type = "ApiError"
  /\ lastError.status_code = 403

\* C9 (as amended): the deploy request leaves initialSupply out of
\* constructorParams when tokenMetadata.initialSupply is "0", the empty
\* string or absent, and carries it unchanged for every other value.
C9_InitialSupply ==
  wpc = "awaitDeploy" =>
    LET p == lastRequest.body.constructorParams
        i == frame.meta.initialSupply
    IN IF i \in {Undef, <<>>, <<"0">>}
         THEN "initialSupply" \notin DOMAIN p
         ELSE "initialSupply" \in DOMAIN p /\ p.initialSupply = i

\* C9 witness: a deploy request for an empty initialSupply is in flight,
\* without initialSupply.
C9_Witness ==
  /\ wpc = "awaitDeploy"
  /\ frame.meta.initialSupply = <<>>
  /\ "initialSupply" \notin DOMAIN lastRequest.body.constructorParams

\* C9 as stated: initialSupply is left out when it is exactly "0" or absent
\* and carried unchanged for every other value.
C9_Original ==
  wpc = "awaitDeploy" =>
    LET p == lastRequest.body.constructorParams
        i == frame.meta.initialSupply
    IN IF i \in {Undef, <<"0">>}
         THEN "initialSupply" \notin DOMAIN p
         ELSE "initialSupply" \in DOMAIN p /\ p.initialSupply = i


\* The history of a createWalletWithEmail call that returned a WalletInfo.
SuccessfulCall == <<"send", "successTrue", "getOtpCode", "verify", "walletAddress">>

\* One step of a running createWalletWithEmail call: it issues one request
\* only, the verify request when the callback resolves, and a wallet comes
\* out of it only at the end of the whole history.
CallStep ==
  wpc \in {"awaitSend", "askOtp", "awaitVerify"} =>
    /\ nRequests' = nRequests + (IF wpc = "askOtp" /\ wpc' = "awaitVerify" THEN 1 ELSE 0)
    /\ frame'.email \in {frame.email, Undef}
    /\ (walletInfo' # walletInfo =>
          /\ wpc = "awaitVerify"
          /\ trace' = SuccessfulCall
          /\ walletInfo'.email = lastRequest.body.email)

\* The step in which the OTP callback rejects.
CallbackFailureStep ==
  (trace' # trace /\ trace'[Len(trace')] = "getOtpCodeFailed") =>
    /\ trace' = <<"send", "successTrue", "getOtpCode", "getOtpCodeFailed">>
    /\ nRequests' = nRequests
    /\ lastRequest' = lastRequest
    /\ walletInfo' = walletInfo
    /\ lastError' # NoError
    /\ wpc' = "idle"

\* C21: a createWalletWithEmail call that returned has done, in this order
\* and once each, the send-code request for its email, the call of the OTP
\* callback and the verify request with the same email and the code the
\* callback returned; between its start and its end it issues one request
\* only, the verify request, when the callback resolves. When the callback
\* rejects, no request follows and the call throws.
C21_CallOrder ==
  /\ [](wpc = "awaitSend" =>
          /\ trace = <<"send">>
          /\ lastRequest.path = "/v1/wallets/login/code"
          /\ lastRequest.body.email = frame.email)
  /\ [](wpc = "awaitVerify" =>
          /\ trace = SubSeq(SuccessfulCall, 1, 4)
          /\ lastRequest.path = "/v1/wallets/login/code/verify"
          /\ lastRequest.body.email = frame.email
          /\ lastRequest.body.code = frame.otpCode)
  /\ []((Len(trace) > 0 /\ trace[Len(trace)] = "walletAddress") => trace = SuccessfulCall)
  /\ [][CallStep]_vars
  /\ [][CallbackFailureStep]_vars

\* C21 witness: a library caller's createWalletWithEmail returned the
\* wallet after a verify request that carried the callback's code.
C21_Witness ==
  /\ driver = "caller"
  /\ wpc = "idle"
  /\ trace = SuccessfulCall
  /\ walletInfo.present
  /\ lastRequest.path = "/v1/wallets/login/code/verify"
  /\ lastRequest.body.code = <<"1", "2", "3", "4">>
  /\ lastRequest.body.email = walletInfo.email


\* One step of the client leaves the configuration alone, and changes the
\* stored Authorization header only when a createWalletWithEmail call
\* returns its wallet.
ClientStateStep ==
  /\ config' = config
  /\ (authHeader' # authHeader =>
        /\ wpc = "awaitVerify"
        /\ frame.op = "createWalletWithEmail"
        /\ trace' = SuccessfulCall
        /\ lastError' = NoError
        /\ walletInfo'.present
        /\ authHeader' = updateAuthHeaders(lastRequest'.answer.body.token))

\* C22: of the client's stored state only the Authorization header ever
\* changes, and only when createWalletWithEmail succeeds: sendLoginCode,
\* verifyLoginCode called directly, deployERC20Contract, getWalletInfo,
\* getContractInfo and a failed createWalletWithEmail leave the header and
\* the configuration as they were.
C22_OnlyTokenChanges == [][ClientStateStep]_vars

\* C22 witness: after a wallet was created, a directly called
\* verifyLoginCode returned an answer with another token, and the stored
\* header is still the first one.
C22_Witness ==
  /\ wpc = "idle"
  /\ lastRequest.path = "/v1/wallets/login/code/verify"
  /\ lastRequest.answer.kind = "response"
  /\ ~lastRequest.answer.body.null
  /\ trace = SuccessfulCall
  /\ lastError = NoError
  /\ console = {"returned"}
  /\ walletInfo.present
  /\ authHeader = updateAuthHeaders(walletInfo.token)
  /\ lastRequest.answer.body.token # walletInfo.token


---------------------------------------------------------------------------
(* Claims about the --email variant of the wallet tool (SpecWallet)        *)

\* The command line has --email followed by a value isValidEmail accepts.
ValidEmailGiven ==
  /\ FlagValue(args, "--email") # Undef
  /\ isValidEmail(FlagValue(args, "--email"))

\* The program waits for a line typed at a prompt.
PromptStates ==
  {"askEcosystem", "askEcosystemId", "askWantsPartner", "askPartnerId", "askEmail", "askOtp",
   "askDeploy", "askName", "askSymbol", "askDescription", "askDecimals", "askSupply",
   "askSaveWallet", "askSaveComplete"}

\* The prompts of getTokenMetadata.
TokenPrompts == {"askName", "askSymbol", "askDescription", "askDecimals", "askSupply"}

\* C24: with a valid --email value the tool never shows the email prompt
\* nor the ecosystem prompts; the OTP prompt comes first, after the
\* send-code request was answered with success, every other prompt comes
\* after the wallet was created, and the token prompts come only after the
\* deploy question was answered y.
C24_PromptOrder ==
  ValidEmailGiven =>
    /\ wpc \notin {"askEmail", "askEcosystem", "askEcosystemId", "askWantsPartner",
                    "askPartnerId"}
    /\ wpc = "askOtp" =>
         /\ trace = SubSeq(SuccessfulCall, 1, 3)
         /\ lastRequest.path = "/v1/wallets/login/code"
         /\ lastRequest.answer.kind = "response"
         /\ Is2xx(lastRequest.answer.status)
         /\ lastRequest.answer.body.success = TRUE
         /\ ~walletInfo.present
    /\ wpc \in PromptStates \ {"askOtp"} =>
         /\ trace = SuccessfulCall
         /\ walletInfo.present
    /\ wpc \in TokenPrompts => toLowerCase(draft.deployContract) = <<"y">>

\* C24 witness: started with --email and a valid address, the tool asks for
\* the token symbol, having created the wallet and read y at the deploy
\* question.
C24_Witness ==
  /\ ValidEmailGiven
  /\ driver = "nonInteractive"
  /\ wpc = "askSymbol"
  /\ walletInfo.present
  /\ draft.deployContract = <<"y">>
  /\ nRequests = 2


---------------------------------------------------------------------------
(* Claims about deployERC20Contract (SpecClient)                           *)

\* deployERC20Contract returns its ContractInfo.
DeployReturns == wpc = "awaitDeploy" /\ wpc' # "awaitDeploy" /\ lastError' = NoError

\* The ContractInfo returned names the caller's wallet as deployer and the
\* chain id that went out with the request.
DeployReturnStep ==
  DeployReturns =>
    /\ contractInfo'.present
    /\ contractInfo'.deployer = frame.walletAddress
    /\ contractInfo'.chainId = lastRequest.body.chainId
    /\ lastRequest'.body = lastRequest.body

\* C27: every deploy request has from and
\* constructorParams.primarySaleRecipient equal to the walletAddress
\* argument; the ContractInfo returned on success has that address as
\* deployer and, as chainId, the chain id sent in the request, whatever
\* chain id the answer carries.
C27_DeployerAndChain ==
  /\ [](wpc = "awaitDeploy" =>
          /\ lastRequest.path = "/v1/contracts"
          /\ lastRequest.body.from = frame.walletAddress
          /\ lastRequest.body.constructorParams.primarySaleRecipient = frame.walletAddress)
  /\ [][DeployReturnStep]_vars

\* C27 witness: a deployment from the second address on chain 5 returned,
\* the answer naming another chain.
C27_Witness ==
  /\ wpc = "idle"
  /\ lastRequest.path = "/v1/contracts"
  /\ lastRequest.body.from = <<"0", "x", "9">>
  /\ lastRequest.body.chainId = 5
  /\ lastRequest.answer.kind = "response"
  /\ ~lastRequest.answer.body.null
  /\ lastRequest.answer.body.chainId = 8453
  /\ contractInfo.present
  /\ contractInfo.deployer = <<"0", "x", "9">>
  /\ contractInfo.chainId = 5


---------------------------------------------------------------------------
(* deployERC20Contract over the chain ids it may be given (SpecChain)      *)

MaxChainCalls == 1

\* Values of DEFAULT_CHAIN_ID: unset, empty, zero, positive, negative,
\* non-numeric, digits followed by other text.
ChainEnvs == EnvChainIds \cup {<<>>, <<"-", "5">>, <<"8", "x">>}

\* Values of the chainId argument: absent, NaN, zero, positive, negative.
ChainArguments == {NoNumber, NaN, 0, 5, 0 - 3}

\* A client built on the configuration the tools build from the
\* environment, or on one that has no chainId.
InitChain ==
  /\ args = <<>>
  /\ apiKey = "sk-1"
  /\ envChainId \in ChainEnvs
  /\ driver = "caller"
  /\ inFlight = 0
  /\ console = {}
  /\ exitCode = Running
  /\ CheckerIdle
  /\ config \in {ConfigOf(apiKey, envChainId, Undef, Undef),
                  [ConfigOf(apiKey, envChainId, Undef, Undef) EXCEPT !.chainId = NoNumber]}
  /\ authHeader = Undef
  /\ frame = NoFrame
  /\ lastRequest = NoRequest
  /\ nRequests = 0
  /\ trace = <<>>
  /\ wpc = "idle"
  /\ walletInfo = NoWallet
  /\ draft = NoDraft
  /\ contractInfo = NoContract
  /\ pendingFile = NoFile
  /\ files = {}
  /\ lastError = NoError

\* client.deployERC20Contract(walletAddress, tokenMetadata, chainId) with
\* any chainId argument.
CallDeployOnChain ==
  /\ MayCall
  /\ nRequests < MaxChainCalls
  /\ \E meta \in {m \in CallerMetas : m.initialSupply = <<"0">>}, chainId \in ChainArguments :
       /\ frame' = [NoFrame EXCEPT !.op = "deployERC20Contract", !.walletAddress = Addr,
                                   !.meta = meta, !.chainId = chainId]
       /\ Issue("POST", "/v1/contracts", DeployPayload(Addr, meta, chainId, config))
  /\ Ends("awaitDeploy", Running, {"deploying"})
  /\ UNCHANGED <<envVars, checkerVars, config, authHeader, trace, driver, walletInfo, draft,
                 contractInfo, pendingFile, files, lastError>>

NextChain ==
  \/ CallDeployOnChain
  \/ DeploySettles

SpecChain == InitChain /\ [][NextChain]_vars

\* C29: the chainId of a deploy request is the chainId argument when that
\* is a number other than 0, else the configured chain id when that is a
\* number other than 0, else 1; so whatever DEFAULT_CHAIN_ID is (unset, 0,
\* non-numeric, positive) the chainId sent is a number other than 0, never
\* 0, NaN or absent.
C29_ChainIdSent ==
  wpc = "awaitDeploy" =>
    LET sent == lastRequest.body.chainId
        given == frame.chainId
        configured == config.chainId
    IN /\ sent = (IF given \notin {0, NaN, NoNumber} THEN given
                  ELSE IF configured \notin {0, NaN, NoNumber} THEN configured
                  ELSE 1)
       /\ sent \notin {0, NaN, NoNumber}
       /\ config.chainId # NoNumber =>
            config.chainId = (IF envChainId \in {Undef, <<>>} THEN 1 ELSE parseInt(envChainId))

\* C29 witness: with DEFAULT_CHAIN_ID=0 and a chainId argument of 0 the
\* request goes out with chain id 1.
C29_Witness ==
  /\ wpc = "awaitDeploy"
  /\ envChainId = <<"0">>
  /\ config.chainId = 0
  /\ frame.chainId = 0
  /\ lastRequest.body.chainId = 1

====
